---- MODULE Spec2Model ----
(***************************************************************************)
(* A model of mully-mouth's shot pipeline: the motion segmenter            *)
(* (services/motion_detector.py), the perceptual-hash pattern cache        *)
(* (services/pattern_cache.py), the learning service's correction log      *)
(* (services/learning_service.py) and the orchestrator (cli/monitor.py).   *)
(*                                                                         *)
(* Units: confidences are integer per cent (0.7 is 70); time is in ticks.  *)
(***************************************************************************)
EXTENDS Integers, Sequences, FiniteSets, TLC

\* ------------------------------------------------------------------ bounds

\* hash_size of the perceptual hash: the hash has HashSize * HashSize bits
\* (imagehash.phash defaults to 8; the model uses a smaller grid).
HashSize == 2
\* The clock of the monitor stops advancing at MaxTime.
MaxTime == 4
\* Number of cache operations in one run of SpecCache.
MaxOps == 4
\* MotionDetectorService.ball_stop_duration, in ticks.
BallStopTicks == 2
\* Number of motion episodes the environment shows in one run of Spec.
MaxShots == 2
\* Number of corrections the user records in one run of Spec.
MaxCorrections == 2
\* calls of the learning service per run
MaxLearnOps == 3
\* largest configured max_examples_per_outcome
MaxCap == 2
\* longest example list of an examples file found at start-up
MaxStored == 3
MaxThreadCalls == 3
MaxCaptures == 2
MaxPolls == 3
\* processes that start the application
MaxProcs == 3
\* speeches started by speak
MaxSpeeches == 3
\* Monitors created by the tray application
MaxMonitors == 2
\* sessions saved by Monitor.stop
MaxSaves == 2

\* ------------------------------------------------------- program constants

\* CacheConfig.min_confidence_to_cache = 0.7
MinConfidenceToCache == 70
\* MonitoringConfig.motion_threshold = 0.02, in per mille
MotionThreshold == 20

\* LearningService.__init__: max_examples_per_outcome = 5
DefaultMaxExamples == 5
\* Monitor._process_shot: get_few_shot_examples(limit=3)
FewShotLimit == 3

\* Python's None; an optional number t is held as <<t>>
None == <<>>

\* models/outcome.py: the outcomes used by the model's inputs
UNKNOWN == "unknown"
Outcomes == {"water", "bunker"}

\* confidences passed to add_pattern and to update_confidence
CacheConfidences == {90, 100}
NewConfidences == {50}

\* ------------------------------------------------------------ fingerprints

HashBits == HashSize * HashSize

\* A frame is represented by the bit array its perceptual hash binarizes to.
\* The frames the environment shows differ in their last two bits only, at
\* Hamming distances 1 and 2 from each other.
LowBits == {<<0, 0>>, <<0, 1>>, <<1, 1>>}

Frames ==
  { [i \in 1..HashBits |-> IF i = HashBits THEN b[2]
                            ELSE IF i = HashBits - 1 THEN b[1] ELSE 0]
    : b \in LowBits }

\* PatternCacheService._compute_hash: imagehash.phash(img), an ImageHash
\* wrapping the bit array.
ComputeHash(screenshot) == [i \in 1..HashBits |-> screenshot[i]]

HexChars == <<"0", "1", "2", "3", "4", "5", "6", "7",
              "8", "9", "a", "b", "c", "d", "e", "f">>

HexLen == (HashBits + 3) \div 4

RECURSIVE BitsToNat(_, _)
BitsToNat(bits, n) ==
  IF n = 0 THEN 0 ELSE 2 * BitsToNat(bits, n - 1) + bits[n]

RECURSIVE NatToHex(_, _)
NatToHex(v, width) ==
  IF width = 0 THEN <<>>
  ELSE Append(NatToHex(v \div 16, width - 1), HexChars[(v % 16) + 1])

\* str(img_hash): the bit array as a zero-padded hex string
HashStr(h) == NatToHex(BitsToNat(h, HashBits), HexLen)

HexVal(c) == (CHOOSE i \in 1..16 : HexChars[i] = c) - 1

RECURSIVE HexToNat(_, _)
HexToNat(s, n) ==
  IF n = 0 THEN 0 ELSE 16 * HexToNat(s, n - 1) + HexVal(s[n])

RECURSIVE Pow2(_)
Pow2(n) == IF n = 0 THEN 1 ELSE 2 * Pow2(n - 1)

\* imagehash.hex_to_hash: the hex string back to a bit array of HashBits bits
HexToHash(s) ==
  LET v == HexToNat(s, Len(s))
  IN [i \in 1..HashBits |-> (v \div Pow2(HashBits - i)) % 2]

\* ImageHash.__sub__: the number of differing bits
HammingDistance(a, b) == Cardinality({i \in 1..HashBits : a[i] # b[i]})

\* ------------------------------------------------------------------ state

VARIABLES
  now,                \* time.time() / datetime.now()
  hamming_threshold,  \* PatternCacheService.hamming_threshold
  patterns,           \* PatternCacheService.patterns, in insertion order
  last,               \* the last completed operation, its arguments and result
  hitCalls,           \* number of find_match calls that returned a hit
  recentAdds,         \* the latest add_pattern calls with no other write since
  ops,                \* operations performed so far
  previous_frame,     \* MotionDetectorService.previous_frame
  last_motion_time,   \* MotionDetectorService.last_motion_time
  motion_detected,    \* MotionDetectorService.motion_detected
  shot_events,        \* Monitor.session.shot_events
  corrections,        \* LearningService.corrections
  fires,              \* number of shot boundaries fired
  episodes,           \* number of motion episodes begun
  lastQual,           \* time of the open episode's last qualifying frame
  cache_file,         \* contents of PatternCacheService.cache_file (None: no file)
  is_running,         \* Monitor.is_running
  monitor_thread,     \* where TrayApplication.monitor_thread is in its loop
  in_flight,          \* the frame whose analyze_shot call is in flight
  tray,               \* where the tray thread is in stop_monitoring
  few_shot_examples,  \* LearningService.few_shot_examples, in insertion order
  max_examples_per_outcome,  \* LearningService.max_examples_per_outcome
  corrections_file,   \* contents of LearningService.corrections_file
  examples_file,      \* contents of LearningService.examples_file
  added,              \* the examples added since the store was last empty
  io_failed,          \* whether a write of the learning service has failed so far
  shot_callback,      \* whether MotionDetectorService.shot_callback is registered
  last_shot_frame,    \* MotionDetectorService.last_shot_frame
  callbacks,          \* the frames shot_callback has been invoked with
  cleared,            \* clear() has run and add_pattern has not run since
  cache_lock,         \* the thread holding PatternCacheService._lock
  threads,            \* each thread's position in its cache call and its locals
  hitsOn,             \* per key, the find_match calls that returned that entry
  monitoring,         \* ScreenCaptureService.monitoring
  latest_frame,       \* ScreenCaptureService.latest_frame
  capture_thread,     \* where ScreenCaptureService._monitor_loop is
  captured,           \* number of frames the capture thread has stored
  delivered,          \* the captures get_latest_frame has returned, in order
  platform,           \* sys.platform
  lock_path,          \* the file SingleInstance.lock_path names (0: none)
  inodes_made,        \* number of files created at lock_path so far
  flocks,             \* per file, the process holding its lock (0: none)
  instances,          \* each process's SingleInstance object and its position
  is_speaking,        \* VoiceService.is_speaking
  should_stop,        \* VoiceService.should_stop
  current_thread,     \* VoiceService.current_thread (0: None)
  speeches,           \* where each thread started by speak is in _speak_sync
  monitor,            \* TrayApplication.monitor (0: None)
  monitors,           \* is_running of each Monitor the tray has created
  run_threads,        \* each _run_monitor thread: its position and its Monitor
  tray_call,          \* where the tray thread is in stop_monitoring
  saved_sessions      \* number of save_session calls made by Monitor.stop

cacheVars == <<hamming_threshold, patterns>>
cacheHist == <<hitCalls, recentAdds, ops>>
detectorVars == <<previous_frame, last_motion_time, motion_detected>>
monitorVars == <<shot_events, corrections>>
monitorHist == <<fires, episodes, lastQual>>
stopVars == <<is_running, monitor_thread, in_flight, tray>>
learnVars == <<few_shot_examples, max_examples_per_outcome, corrections_file,
               examples_file, added, io_failed>>

fireVars == <<shot_callback, last_shot_frame, callbacks>>
threadVars == <<cache_lock, threads, hitsOn>>
captureVars == <<monitoring, latest_frame, capture_thread, captured, delivered>>
instanceVars == <<platform, lock_path, inodes_made, flocks, instances>>
voiceVars == <<is_speaking, should_stop, current_thread, speeches>>
trayVars == <<monitor, monitors, run_threads, tray_call>>
appVars == <<instanceVars, voiceVars, trayVars, saved_sessions>>
extVars == <<fireVars, cleared, threadVars, captureVars, appVars>>

vars == <<now, last, cacheVars, cacheHist, detectorVars, monitorVars, monitorHist,
          cache_file, stopVars, learnVars, extVars>>

\* the dict's keys, in order
Keys(pats) == [i \in 1..Len(pats) |-> pats[i].key]

KeyIndex(pats, k) ==
  IF \E i \in 1..Len(pats) : pats[i].key = k
  THEN CHOOSE i \in 1..Len(pats) : pats[i].key = k
  ELSE 0

\* datetime.now().isoformat()
IsoFormat(t) == <<"T", t>>

\* --------------------------------------------------------------- find_match

\* The scan of find_match: best is the index of best_match (0 for None),
\* bestDist is best_distance.
RECURSIVE ScanFrom(_, _, _, _, _)
ScanFrom(pats, imgHash, i, best, bestDist) ==
  IF i > Len(pats) THEN best
  ELSE LET distance == HammingDistance(imgHash, HexToHash(pats[i].hash))
       IN IF distance < bestDist
          THEN ScanFrom(pats, imgHash, i + 1, i, distance)
          ELSE ScanFrom(pats, imgHash, i + 1, best, bestDist)

\* a scan that also accepts an entry at a distance equal to the threshold
MutBestMatchInclusive(pats, screenshot, threshold) ==
  ScanFrom(pats, ComputeHash(screenshot), 1, 0, threshold + 1)

\* a scan in which the entry met last wins a tie
MutBestMatchLastWins(pats, screenshot, threshold) ==
  LET d(i) == HammingDistance(ComputeHash(screenshot), HexToHash(pats[i].hash))
      cands == {i \in 1..Len(pats) :
                  d(i) < threshold /\ \A j \in 1..Len(pats) : d(i) <= d(j)}
  IN IF cands = {} THEN 0 ELSE CHOOSE i \in cands : \A j \in cands : j <= i

BestMatch(pats, screenshot, threshold) ==
  ScanFrom(pats, ComputeHash(screenshot), 1, 0, threshold)

\* a lookup that counts the hit but leaves last_used as it was
MutFindMatchStoreStale(pats, screenshot, threshold, t) ==
  LET b == ScanFrom(pats, ComputeHash(screenshot), 1, 0, threshold)
  IN IF b = 0 THEN pats ELSE [pats EXCEPT ![b].hit_count = @ + 1]

\* a lookup that counts a hit on every entry below the threshold
MutFindMatchStoreAllBelow(pats, screenshot, threshold, t) ==
  [i \in 1..Len(pats) |->
     IF HammingDistance(ComputeHash(screenshot), HexToHash(pats[i].hash)) < threshold
     THEN [pats[i] EXCEPT !.hit_count = @ + 1, !.last_used = IsoFormat(t)]
     ELSE pats[i]]

\* the store after find_match
FindMatchStore(pats, screenshot, threshold, t) ==
  LET b == BestMatch(pats, screenshot, threshold)
  IN IF b = 0 THEN pats
     ELSE [pats EXCEPT ![b].hit_count = @ + 1, ![b].last_used = IsoFormat(t)]

\* the value find_match returns
FindMatchResult(pats, screenshot, threshold) ==
  LET b == BestMatch(pats, screenshot, threshold)
  IN IF b = 0 THEN None ELSE <<pats[b].outcome, pats[b].confidence>>

\* -------------------------------------------------------------- add_pattern

\* an insert that keeps the entry already stored under the key
MutAddPatternKeepFirst(pats, screenshot, outcome, confidence, t) ==
  LET hash_str == HashStr(ComputeHash(screenshot))
  IN IF KeyIndex(pats, hash_str) # 0 THEN pats
     ELSE Append(pats, [key |-> hash_str, hash |-> hash_str,
                        outcome |-> outcome, confidence |-> confidence,
                        hit_count |-> 0, last_used |-> IsoFormat(t)])

\* an insert that replaces the entry under the key by a fresh one
MutAddPatternReplace(pats, screenshot, outcome, confidence, t) ==
  LET hash_str == HashStr(ComputeHash(screenshot))
      i == KeyIndex(pats, hash_str)
      fresh == [key |-> hash_str, hash |-> hash_str,
                outcome |-> outcome, confidence |-> confidence,
                hit_count |-> 0, last_used |-> IsoFormat(t)]
  IN IF i # 0 THEN [pats EXCEPT ![i] = fresh] ELSE Append(pats, fresh)

\* an insert that always appends a new entry
MutAddPatternAlwaysAppend(pats, screenshot, outcome, confidence, t) ==
  LET hash_str == HashStr(ComputeHash(screenshot))
  IN Append(pats, [key |-> hash_str, hash |-> hash_str,
                   outcome |-> outcome, confidence |-> confidence,
                   hit_count |-> 0, last_used |-> IsoFormat(t)])

AddPatternStore(pats, screenshot, outcome, confidence, t) ==
  LET hash_str == HashStr(ComputeHash(screenshot))
      i == KeyIndex(pats, hash_str)
  IN IF i # 0
     THEN [pats EXCEPT ![i].outcome = outcome, ![i].confidence = confidence]
     ELSE Append(pats, [key |-> hash_str, hash |-> hash_str,
                        outcome |-> outcome, confidence |-> confidence,
                        hit_count |-> 0, last_used |-> IsoFormat(t)])

\* -------------------------------------------------------- update_confidence

UpdateConfidenceStore(pats, screenshot, new_confidence) ==
  LET hash_str == HashStr(ComputeHash(screenshot))
      i == KeyIndex(pats, hash_str)
  IN IF i # 0 THEN [pats EXCEPT ![i].confidence = new_confidence] ELSE pats

\* ---------------------------------------------------------- persist / load

\* Outcome is a str enum: str(outcome) is its value, a JSON string, and
\* Outcome(value) is the member with that value.
OutcomeStr(outcome) == <<"json", outcome>>
OutcomeOf(value) == value[2]

\* A file's text is modelled by the JSON documents it holds: <<doc>> is a
\* text json.load accepts, Garbage is a text it rejects (a document cut
\* short, followed by more text).
Garbage == <<"{", "cut short">>

\* json.load(f) succeeds
JsonLoads(file) == Len(file) = 1

\* the JSON document persist writes: the entries without their dict keys
PersistData(pats) ==
  [patterns |->
     [i \in 1..Len(pats) |->
        [hash |-> pats[i].hash, outcome |-> OutcomeStr(pats[i].outcome),
         confidence |-> pats[i].confidence, hit_count |-> pats[i].hit_count,
         last_used |-> pats[i].last_used]]]

\* self.patterns[pattern.hash] = pattern
PutPattern(pats, pattern) ==
  LET entry == [key |-> pattern.hash, hash |-> pattern.hash,
                outcome |-> pattern.outcome, confidence |-> pattern.confidence,
                hit_count |-> pattern.hit_count, last_used |-> pattern.last_used]
      i == KeyIndex(pats, pattern.hash)
  IN IF i # 0 THEN [pats EXCEPT ![i] = entry] ELSE Append(pats, entry)

RECURSIVE LoadFrom(_, _, _)
LoadFrom(data, i, pats) ==
  IF i > Len(data) THEN pats
  ELSE LoadFrom(data, i + 1,
         PutPattern(pats, [hash |-> data[i].hash,
                           outcome |-> OutcomeOf(data[i].outcome),
                           confidence |-> data[i].confidence,
                           hit_count |-> data[i].hit_count,
                           last_used |-> data[i].last_used]))

\* a load that starts every entry's statistics afresh
MutLoadStoreFreshCounts(file, pats) ==
  IF file = None THEN pats
  ELSE [i \in 1..Len(file[1].patterns) |->
          [key |-> file[1].patterns[i].hash, hash |-> file[1].patterns[i].hash,
           outcome |-> OutcomeOf(file[1].patterns[i].outcome),
           confidence |-> file[1].patterns[i].confidence,
           hit_count |-> 0, last_used |-> file[1].patterns[i].last_used]]

\* the store after load(): untouched when there is no file
LoadStore(file, pats) ==
  IF file = None THEN pats ELSE LoadFrom(file[1].patterns, 1, <<>>)

\* ------------------------------------------------------------ cache actions

\* _load_corrections / _load_examples
LoadCorrections(file) == IF file = None THEN <<>> ELSE file[1].corrections

LoadExamples(file) == IF file = None THEN <<>> ELSE file[1].examples

NoOp == [op |-> "init", frame |-> None, outcome |-> None,
         confidence |-> None, result |-> None]

\* the threads that share the services: the monitor thread (_run_monitor)
\* and the tray thread (menu callbacks); a thread outside a cache call
Threads == {"monitor", "tray"}
Idle == [pc |-> "idle"]

\* the keys the store can hold
AllKeys == {HashStr(ComputeHash(f)) : f \in Frames}

\* the processes that may start the application, the files that may be
\* created at lock_path, the speeches that may be started and the Monitors
\* the tray may create
Procs == 1..MaxProcs
Inodes == 1..MaxProcs
Speeches == 1..MaxSpeeches
Monitors == 1..MaxMonitors

\* the state of the services that is not read from a backing file, on
\* any platform
InitState ==
  /\ now = 0
  /\ patterns = <<>>
  /\ last = NoOp
  /\ hitCalls = 0
  /\ recentAdds = <<>>
  /\ ops = 0
  /\ previous_frame = None
  /\ last_motion_time = None
  /\ motion_detected = FALSE
  /\ shot_events = <<>>
  /\ corrections = <<>>
  /\ fires = 0
  /\ episodes = 0
  /\ lastQual = None
  /\ is_running = TRUE
  /\ monitor_thread = "loop"
  /\ in_flight = None
  /\ tray = "idle"
  /\ added = <<>>
  /\ io_failed = FALSE
  /\ shot_callback = FALSE
  /\ last_shot_frame = None
  /\ callbacks = <<>>
  /\ cleared = FALSE
  /\ cache_lock = None
  /\ threads = [t \in Threads |-> Idle]
  /\ hitsOn = [k \in AllKeys |-> 0]
  /\ monitoring = FALSE
  /\ latest_frame = None
  /\ capture_thread = [pc |-> "none"]
  /\ captured = 0
  /\ delivered = <<>>
  /\ lock_path = 0
  /\ inodes_made = 0
  /\ flocks = [i \in Inodes |-> 0]
  /\ instances = [p \in Procs |-> [pc |-> "absent", handle |-> 0]]
  /\ is_speaking = FALSE
  /\ should_stop = FALSE
  /\ current_thread = 0
  /\ speeches = [k \in Speeches |-> "none"]
  /\ monitor = 0
  /\ monitors = [m \in Monitors |-> FALSE]
  /\ run_threads = [k \in Monitors |-> [pc |-> "none", monitor |-> 0]]
  /\ tray_call = "idle"
  /\ saved_sessions = 0

\* the platform the tray application's message boxes are written for
InitMemory ==
  /\ InitState
  /\ platform = "win32"

\* the services as _init_services constructs them on a fresh data directory
InitServices ==
  /\ InitMemory
  /\ cache_file = None
  /\ corrections_file = None

\* no examples file yet: _load_examples returns {}
NoExamplesFile ==
  /\ examples_file = None
  /\ few_shot_examples = LoadExamples(examples_file)

InitCache ==
  /\ InitServices
  /\ NoExamplesFile
  /\ hamming_threshold \in 0..HashSize
  /\ max_examples_per_outcome = DefaultMaxExamples

\* every call of the cache API takes one tick
CacheCall ==
  /\ ops < MaxOps
  /\ ops' = ops + 1
  /\ now' = now + 1
  /\ UNCHANGED <<hamming_threshold, detectorVars, monitorVars, monitorHist,
                 cache_file, stopVars, learnVars, fireVars, threadVars,
                 captureVars, appVars>>

FindMatch(screenshot) ==
  /\ CacheCall
  /\ patterns' = FindMatchStore(patterns, screenshot, hamming_threshold, now)
  /\ last' = [op |-> "find_match", frame |-> screenshot, outcome |-> None,
              confidence |-> None,
              result |-> FindMatchResult(patterns, screenshot, hamming_threshold)]
  /\ hitCalls' = IF last'.result # None THEN hitCalls + 1 ELSE hitCalls
  /\ UNCHANGED <<recentAdds, cleared>>

AddPattern(screenshot, outcome, confidence) ==
  /\ CacheCall
  /\ patterns' = AddPatternStore(patterns, screenshot, outcome, confidence, now)
  /\ last' = [op |-> "add_pattern", frame |-> screenshot, outcome |-> outcome,
              confidence |-> confidence, result |-> None]
  /\ recentAdds' =
       LET a == [frame |-> screenshot, outcome |-> outcome,
                 confidence |-> confidence]
       IN IF recentAdds = <<>> THEN <<a>>
          ELSE <<recentAdds[Len(recentAdds)], a>>
  /\ cleared' = FALSE
  /\ UNCHANGED hitCalls

UpdateConfidence(screenshot, new_confidence) ==
  /\ CacheCall
  /\ patterns' = UpdateConfidenceStore(patterns, screenshot, new_confidence)
  /\ last' = [op |-> "update_confidence", frame |-> screenshot,
              outcome |-> None, confidence |-> new_confidence, result |-> None]
  /\ recentAdds' = <<>>
  /\ UNCHANGED <<hitCalls, cleared>>

NextCache ==
  \/ \E f \in Frames : FindMatch(f)
  \/ \E f \in Frames, o \in Outcomes, c \in CacheConfidences : AddPattern(f, o, c)
  \/ \E f \in Frames, c \in NewConfidences : UpdateConfidence(f, c)

SpecCache == InitCache /\ [][NextCache]_vars

\* --------------------------------------------------------- motion detector

\* The motion sample analyze_frame derives from the previous frame and the
\* current one: motion_ratio in per mille, and whether the motion is
\* primarily vertical. The first frame after construction or reset has none.
NoSample == [motion_ratio |-> 0, is_vertical |-> FALSE]
Samples == {[motion_ratio |-> 20, is_vertical |-> TRUE],
            [motion_ratio |-> 50, is_vertical |-> FALSE],
            [motion_ratio |-> 50, is_vertical |-> TRUE]}

\* a motion test that ignores the direction of the motion
MutAnalyzeFrameAnyDirection(prev, sample) ==
  IF prev = None THEN FALSE
  ELSE sample.motion_ratio > MotionThreshold

\* analyze_frame's return value
AnalyzeFrame(prev, sample) ==
  IF prev = None THEN FALSE
  ELSE sample.motion_ratio > MotionThreshold /\ sample.is_vertical

\* a stop test that needs strictly more than ball_stop_duration
MutIsBallStoppedStrict(detected, lmt, t) ==
  IF ~detected \/ lmt = None THEN FALSE ELSE t - lmt[1] > BallStopTicks

IsBallStopped(detected, lmt, t) ==
  IF ~detected \/ lmt = None THEN FALSE
  ELSE t - lmt[1] >= BallStopTicks

\* ------------------------------------------------------------ _process_shot

\* What the collaborators of one _process_shot call do: whether the
\* achievement detector reports an achievement, what the classifier replies
\* (ok = FALSE: analyze_shot raises AIServiceError), and whether commentary is
\* skipped (commentary_frequency), generated and spoken, or raises.
\* The CONFIDENCE figures a reply may carry, in hundredths; one lies above 1.
RawConfidences == {50, 70, 90, 150}

\* _parse_response: "Clamp confidence to [0.0, 1.0]"
ParseConfidence(raw) ==
  LET capped == IF raw < 100 THEN raw ELSE 100
  IN IF capped > 0 THEN capped ELSE 0

ClassifierReplies ==
  {[ok |-> FALSE]}
    \cup [ok : {TRUE}, outcome : Outcomes,
          confidence : {ParseConfidence(raw) : raw \in RawConfidences},
          usage : {[input_tokens |-> 1000, output_tokens |-> 50]}]
Collaborators ==
  [achievement : BOOLEAN, classifier : ClassifierReplies,
   commentary : {"skip", "speak", "raise"}]

\* Monitor._calculate_api_cost, in millionths of a dollar
CalculateApiCost(usage) == 3 * usage.input_tokens + 15 * usage.output_tokens

\* generate_commentary raises CommentaryError only on its API path
\* (confidence >= 0.6); below that it returns a fallback phrase.
CommentaryRaises(c, confidence) == c.commentary = "raise" /\ confidence >= 60

\* an event that is always recorded as classified by the API
MutShotEventNeverCached(screenshot, outcome, confidence, was_cached, api_cost) ==
  [screenshot_hash |-> HashStr(ComputeHash(screenshot)),
   detected_outcome |-> outcome, confidence |-> confidence,
   was_cached |-> FALSE, api_cost |-> api_cost, correction |-> None]

ShotEvent(screenshot, outcome, confidence, was_cached, api_cost) ==
  [screenshot_hash |-> HashStr(ComputeHash(screenshot)),
   detected_outcome |-> outcome, confidence |-> confidence,
   was_cached |-> was_cached, api_cost |-> api_cost, correction |-> None]

\* The tail of _process_shot from the commentary on: the event is appended
\* unless the commentary generator raised.
Report(pats, events, calls, screenshot, c, outcome, confidence, was_cached, cost) ==
  LET calls1 == IF c.commentary = "skip" THEN calls
                ELSE Append(calls, "generate_commentary")
  IN IF CommentaryRaises(c, confidence)
     THEN [patterns |-> pats, shot_events |-> events, calls |-> calls1,
           error |-> "CommentaryError"]
     ELSE [patterns |-> pats,
           shot_events |-> Append(events, ShotEvent(screenshot, outcome,
                                                    confidence, was_cached, cost)),
           calls |-> IF c.commentary = "skip" THEN calls1
                     ELSE Append(calls1, "speak"),
           error |-> "none"]

\* a caching test that needs strictly more than min_confidence_to_cache
MutShouldCacheStrict(confidence) == confidence > MinConfidenceToCache

\* a caching test that every classifier result passes
MutShouldCacheAlways(confidence) == confidence >= 0

\* "Add to cache if high confidence"
ShouldCache(confidence) == confidence >= MinConfidenceToCache

\* _process_shot: the store, the session's events, the calls made and the
\* exception swallowed by its handler (None when none was raised).
ProcessShot(pats, events, screenshot, c, threshold, t) ==
  IF c.achievement
  THEN [patterns |-> pats, shot_events |-> events,
        calls |-> <<"detect_score_achievement",
                    "generate_achievement_commentary", "speak">>,
        error |-> "none"]
  ELSE
    LET cached_result == FindMatchResult(pats, screenshot, threshold)
        pats1 == FindMatchStore(pats, screenshot, threshold, t)
        calls1 == <<"detect_score_achievement", "find_match">>
    IN IF cached_result # None
       THEN Report(pats1, events, calls1, screenshot, c,
                   cached_result[1], cached_result[2], TRUE, 0)
       ELSE
         LET calls2 == calls1 \o <<"get_few_shot_examples", "analyze_shot">>
         IN IF ~c.classifier.ok
            THEN [patterns |-> pats1, shot_events |-> events, calls |-> calls2,
                  error |-> "AIServiceError"]
            ELSE
              LET outcome == c.classifier.outcome
                  confidence == c.classifier.confidence
                  api_cost == CalculateApiCost(c.classifier.usage)
                  cache_it == ShouldCache(confidence)
                  pats2 == IF cache_it
                           THEN AddPatternStore(pats1, screenshot, outcome,
                                                confidence, t)
                           ELSE pats1
                  calls3 == IF cache_it THEN Append(calls2, "add_pattern")
                            ELSE calls2
              IN Report(pats2, events, calls3, screenshot, c,
                        outcome, confidence, FALSE, api_cost)

\* --------------------------------------------------------- learning service

\* Python's seq[start:] and seq[:stop] for any integer index
PySliceFrom(seq, start) ==
  LET n == Len(seq)
      from == IF start < 0 THEN (IF n + start < 0 THEN 0 ELSE n + start)
              ELSE (IF start > n THEN n ELSE start)
  IN SubSeq(seq, from + 1, n)

PySliceTo(seq, stop) ==
  LET n == Len(seq)
      to == IF stop < 0 THEN (IF n + stop < 0 THEN 0 ELSE n + stop)
            ELSE (IF stop > n THEN n ELSE stop)
  IN SubSeq(seq, 1, to)

\* UserCorrection.to_dict
CorrectionToDict(original, corrected, t) ==
  [original_outcome |-> original, corrected_outcome |-> corrected,
   timestamp |-> IsoFormat(t), user_notes |-> ""]

\* the example dict add_few_shot_example builds
Example(outcome, screenshot_hash, reasoning, confidence) ==
  [screenshot_hash |-> screenshot_hash, outcome |-> outcome,
   reasoning |-> reasoning, confidence |-> confidence]

\* the list stored under a key of few_shot_examples ([] when absent)
ExamplesOf(examples, outcome_key) ==
  IF KeyIndex(examples, outcome_key) = 0 THEN <<>>
  ELSE examples[KeyIndex(examples, outcome_key)].examples

\* few_shot_examples after add_few_shot_example
AddFewShotExample(examples, cap, outcome, screenshot_hash, reasoning, confidence) ==
  LET d == IF KeyIndex(examples, outcome) = 0
           THEN Append(examples, [key |-> outcome, examples |-> <<>>])
           ELSE examples
      i == KeyIndex(d, outcome)
      appended == Append(d[i].examples,
                         Example(outcome, screenshot_hash, reasoning, confidence))
  IN [d EXCEPT ![i].examples =
        IF Len(appended) > cap THEN PySliceFrom(appended, 0 - cap) ELSE appended]

\* a collection that takes three per outcome
RECURSIVE MutThreePerOutcome(_, _)
MutThreePerOutcome(examples, i) ==
  IF i > Len(examples) THEN <<>>
  ELSE PySliceFrom(examples[i].examples, 0 - 3) \o MutThreePerOutcome(examples, i + 1)

\* "2 per outcome", over the dict's values in order
RECURSIVE TwoPerOutcome(_, _)
TwoPerOutcome(examples, i) ==
  IF i > Len(examples) THEN <<>>
  ELSE PySliceFrom(examples[i].examples, 0 - 2) \o TwoPerOutcome(examples, i + 1)

\* get_few_shot_examples; outcome is None or <<o>>
GetFewShotExamples(examples, outcome, limit) ==
  IF outcome # None
  THEN PySliceFrom(ExamplesOf(examples, outcome[1]), 0 - limit)
  ELSE PySliceTo(TwoPerOutcome(examples, 1), limit)

\* the reasoning promote_correction_to_example writes
PromotionReasoning(correction) ==
  <<"User correction: was", correction.original_outcome,
    "actually", correction.corrected_outcome>>

\* a promotion that takes a negative index as Python's list indexing does
MutPromoteNegativeIndex(corrs, examples, cap, correction_index) ==
  IF correction_index >= Len(corrs) \/ correction_index < 0 - Len(corrs)
  THEN [few_shot_examples |-> examples, error |-> "LearningError", example |-> None]
  ELSE LET correction == corrs[IF correction_index < 0
                               THEN Len(corrs) + correction_index + 1
                               ELSE correction_index + 1]
       IN [few_shot_examples |->
             AddFewShotExample(examples, cap, correction.corrected_outcome,
                               "correction", PromotionReasoning(correction), 100),
           error |-> "none",
           example |-> Example(correction.corrected_outcome, "correction",
                               PromotionReasoning(correction), 100)]

\* promote_correction_to_example up to its save: the store, the error raised
\* and the example built
PromoteCorrectionToExample(corrs, examples, cap, correction_index) ==
  IF correction_index < 0 \/ correction_index >= Len(corrs)
  THEN [few_shot_examples |-> examples, error |-> "LearningError", example |-> None]
  ELSE LET correction == corrs[correction_index + 1]
       IN [few_shot_examples |->
             AddFewShotExample(examples, cap, correction.corrected_outcome,
                               "correction", PromotionReasoning(correction), 100),
           error |-> "none",
           example |-> Example(correction.corrected_outcome, "correction",
                               PromotionReasoning(correction), 100)]

\* a save of the corrections that never reaches the file
MutSaveCorrectionsNowhere(file, corrs, fails) == file

\* _save_corrections / _save_examples: json.dump of the wrapping dict; a
\* failing open leaves the file as it was and raises LearningError
SaveCorrections(file, corrs, fails) ==
  IF fails THEN file ELSE <<[corrections |-> corrs]>>

SaveExamples(file, examples, fails) ==
  IF fails THEN file ELSE <<[examples |-> examples]>>

SaveError(fails) == IF fails THEN "LearningError" ELSE "none"


\* --------------------------------------------------------- monitor actions

Init ==
  /\ InitCache
  /\ hamming_threshold = HashSize

Tick ==
  /\ now < MaxTime
  /\ now' = now + 1
  /\ UNCHANGED <<last, cacheVars, cacheHist, detectorVars, monitorVars, monitorHist,
                 cache_file, stopVars, learnVars, extVars>>

\* the frames and samples the environment may show next: a first frame has
\* no sample, and at most MaxShots motion episodes begin
NextSamples ==
  IF previous_frame = None THEN {NoSample}
  ELSE {s \in Samples :
          (s.motion_ratio > MotionThreshold /\ s.is_vertical)
            => (lastQual # None \/ episodes < MaxShots)}

\* the segmenter's state after analyze_frame
MotionAfter(sample) ==
  LET has_motion == AnalyzeFrame(previous_frame, sample)
  IN [has_motion |-> has_motion,
      motion_detected |-> IF has_motion THEN TRUE ELSE motion_detected,
      last_motion_time |-> IF has_motion THEN <<now>> ELSE last_motion_time]

Stopped(sample) ==
  LET m == MotionAfter(sample)
  IN IsBallStopped(m.motion_detected, m.last_motion_time, now)

Episode(sample, fired) ==
  LET q == sample.motion_ratio > MotionThreshold /\ sample.is_vertical
             /\ previous_frame # None
  IN /\ episodes' = IF q /\ lastQual = None THEN episodes + 1 ELSE episodes
     /\ lastQual' = IF fired THEN None ELSE IF q THEN <<now>> ELSE lastQual
     /\ fires' = IF fired THEN fires + 1 ELSE fires

\* A collaborator that _process_shot did not call gives no reply: its part
\* of c is kept at a fixed value.
Called(calls, name) == \E i \in 1..Len(calls) : calls[i] = name

Consulted(c, calls) ==
  /\ Called(calls, "analyze_shot") \/ c.classifier = [ok |-> FALSE]
  /\ \/ c.commentary = "skip"
     \/ Called(calls, "generate_commentary")

\* One iteration of _monitoring_loop with no frame available: sleep.
PollNoFrame ==
  UNCHANGED vars

\* One iteration of _monitoring_loop in which the ball has not stopped.
PollFrame(frame, sample) ==
  /\ ~Stopped(sample)
  /\ LET m == MotionAfter(sample)
     IN /\ previous_frame' = frame
        /\ motion_detected' = m.motion_detected
        /\ last_motion_time' = m.last_motion_time
  /\ Episode(sample, FALSE)
  /\ last' = [op |-> "loop", frame |-> frame, sample |-> sample, fired |-> FALSE]
  /\ UNCHANGED <<now, cacheVars, cacheHist, monitorVars, cache_file, stopVars,
                 learnVars, extVars>>

\* One iteration of _monitoring_loop in which the ball has stopped:
\* analyze_frame, is_ball_stopped, _process_shot, reset.
ProcessAndReset(frame, sample, c) ==
  /\ LET r == ProcessShot(patterns, shot_events, frame, c, hamming_threshold, now)
     IN /\ Consulted(c, r.calls)
        /\ patterns' = r.patterns
        /\ shot_events' = r.shot_events
        /\ last' = [op |-> "loop", frame |-> frame, sample |-> sample,
                    fired |-> TRUE, collaborators |-> c, calls |-> r.calls,
                    error |-> r.error]
  /\ previous_frame' = None
  /\ last_motion_time' = None
  /\ motion_detected' = FALSE
  /\ Episode(sample, TRUE)
  /\ UNCHANGED <<now, hamming_threshold, cacheHist, corrections, cache_file,
                 stopVars, learnVars, extVars>>

PollShot(frame, sample) ==
  /\ Stopped(sample)
  /\ \E c \in Collaborators : ProcessAndReset(frame, sample, c)

\* LearningService.add_correction, for the most recent shot of the session
AddCorrection(corrected) ==
  /\ Len(shot_events) > 0
  /\ Len(corrections) < MaxCorrections
  /\ LET shot == shot_events[Len(shot_events)]
     IN /\ corrected # shot.detected_outcome
        /\ corrections' = Append(corrections,
             CorrectionToDict(shot.detected_outcome, corrected, now))
        /\ corrections_file' = SaveCorrections(corrections_file, corrections', FALSE)
        /\ last' = [op |-> "add_correction",
                    screenshot_hash |-> shot.screenshot_hash,
                    corrected_outcome |-> corrected]
  /\ UNCHANGED <<now, cacheVars, cacheHist, detectorVars, shot_events, monitorHist,
                 cache_file, stopVars, few_shot_examples, max_examples_per_outcome,
                 examples_file, added, io_failed, extVars>>

Next ==
  \/ Tick
  \/ PollNoFrame
  \/ \E f \in Frames, s \in NextSamples : PollFrame(f, s)
  \/ \E f \in Frames, s \in NextSamples : PollShot(f, s)
  \/ \E o \in Outcomes : AddCorrection(o)

Spec == Init /\ [][Next]_vars

\* persist()
PersistCall ==
  /\ ops < MaxOps
  /\ ops' = ops + 1
  /\ now' = now + 1
  /\ cache_file' = <<PersistData(patterns)>>
  /\ last' = [op |-> "persist", frame |-> None, outcome |-> None,
              confidence |-> None, result |-> None]
  /\ UNCHANGED <<cacheVars, hitCalls, recentAdds, detectorVars, monitorVars,
                 monitorHist, stopVars, learnVars, extVars>>

\* a fresh PatternCacheService on the same file: empty patterns, then load()
Restart ==
  /\ ops < MaxOps
  /\ ops' = ops + 1
  /\ now' = now + 1
  /\ patterns' = LoadStore(cache_file, <<>>)
  /\ recentAdds' = <<>>
  /\ last' = [op |-> "load", frame |-> None, outcome |-> None,
              confidence |-> None, result |-> None]
  /\ UNCHANGED <<hamming_threshold, hitCalls, cache_file, detectorVars,
                 monitorVars, monitorHist, stopVars, learnVars, extVars>>

NextPersist ==
  \/ NextCache
  \/ PersistCall
  \/ Restart

SpecPersist == Init /\ [][NextPersist]_vars

\* ------------------------------------------------------- stopping the monitor
\* The monitor thread runs _monitoring_loop while the tray thread runs
\* TrayApplication.stop_monitoring. A shot whose find_match misses is split
\* at its analyze_shot call: the call is in flight between BeginShot and
\* FinishShot. Only the monitor thread writes the store, so the whole of
\* _process_shot takes effect when the classifier's reply arrives.

stopRest == <<hamming_threshold, cacheHist, detectorVars, corrections, episodes,
              lastQual, learnVars, extVars>>

\* the loop finds is_running true, the ball has stopped and find_match
\* misses: analyze_shot is called
BeginShot(frame) ==
  /\ monitor_thread = "loop"
  /\ is_running
  /\ fires < MaxShots
  /\ FindMatchResult(patterns, frame, hamming_threshold) = None
  /\ monitor_thread' = "in_flight"
  /\ in_flight' = <<frame>>
  /\ fires' = fires + 1
  /\ last' = [op |-> "begin_shot", frame |-> frame]
  /\ UNCHANGED <<now, patterns, shot_events, cache_file, is_running, tray, stopRest>>

\* the reply (or the failure, or the time-out) of analyze_shot arrives and
\* _process_shot runs to its end
FinishShot(c) ==
  /\ monitor_thread = "in_flight"
  /\ ~c.achievement
  /\ LET r == ProcessShot(patterns, shot_events, in_flight[1], c,
                          hamming_threshold, now)
     IN /\ Consulted(c, r.calls)
        /\ patterns' = r.patterns
        /\ shot_events' = r.shot_events
        /\ last' = [op |-> "finish_shot", frame |-> in_flight[1],
                    collaborators |-> c, calls |-> r.calls, error |-> r.error]
  /\ monitor_thread' = "loop"
  /\ in_flight' = None
  /\ UNCHANGED <<now, fires, cache_file, is_running, tray, stopRest>>

\* a shot that makes no classifier call: an achievement or a cache hit
QuickShot(frame, c) ==
  /\ monitor_thread = "loop"
  /\ is_running
  /\ fires < MaxShots
  /\ c.achievement \/ FindMatchResult(patterns, frame, hamming_threshold) # None
  /\ LET r == ProcessShot(patterns, shot_events, frame, c, hamming_threshold, now)
     IN /\ Consulted(c, r.calls)
        /\ patterns' = r.patterns
        /\ shot_events' = r.shot_events
        /\ last' = [op |-> "quick_shot", frame |-> frame,
                    collaborators |-> c, calls |-> r.calls, error |-> r.error]
  /\ fires' = fires + 1
  /\ UNCHANGED <<now, cache_file, stopVars, stopRest>>

\* `while self.is_running` finds the flag false: the thread ends
MonitorExit ==
  /\ monitor_thread = "loop"
  /\ ~is_running
  /\ monitor_thread' = "exited"
  /\ UNCHANGED <<now, last, patterns, shot_events, fires, cache_file, is_running,
                 in_flight, tray, stopRest>>

\* Monitor.stop up to the session's end: the flag is cleared
StopBegin ==
  /\ tray = "idle"
  /\ is_running
  /\ is_running' = FALSE
  /\ tray' = "persist"
  /\ last' = [op |-> "stop"]
  /\ UNCHANGED <<now, patterns, shot_events, fires, cache_file, monitor_thread,
                 in_flight, stopRest>>

\* Monitor.stop: self.pattern_cache.persist()
StopPersist ==
  /\ tray = "persist"
  /\ cache_file' = <<PersistData(patterns)>>
  /\ tray' = "join"
  /\ last' = [op |-> "persist", raised |-> "none"]
  /\ UNCHANGED <<now, patterns, shot_events, fires, is_running, monitor_thread,
                 in_flight, stopRest>>

\* stop_monitoring: monitor_thread.join returns, the thread having ended
\* (timed_out FALSE) or the time-outs of both joins having passed
StopJoin(timed_out) ==
  /\ tray = "join"
  /\ timed_out <=> monitor_thread # "exited"
  /\ tray' = "done"
  /\ last' = [op |-> "join", timed_out |-> timed_out]
  /\ UNCHANGED <<now, patterns, shot_events, fires, cache_file, is_running,
                 monitor_thread, in_flight, stopRest>>

NextStop ==
  \/ Tick
  \/ \E f \in Frames : BeginShot(f)
  \/ \E c \in Collaborators : FinishShot(c)
  \/ \E f \in Frames, c \in Collaborators : QuickShot(f, c)
  \/ MonitorExit
  \/ StopBegin
  \/ StopPersist
  \/ \E timed_out \in BOOLEAN : StopJoin(timed_out)

SpecStop == Init /\ [][NextStop]_vars

\* the cache file after a persist that fails: a failing open leaves it as
\* it was, a failing json.dump leaves the text cut short
FailedPersistFile(file, point) ==
  IF point = "open" THEN file ELSE Garbage

\* Monitor.stop: self.pattern_cache.persist() raises CacheError. Nothing in
\* stop handles it; stop_monitoring's handler reports it and skips the join.
StopPersistFails(point) ==
  /\ tray = "persist"
  /\ cache_file' = FailedPersistFile(cache_file, point)
  /\ tray' = "done"
  /\ last' = [op |-> "persist", raised |-> "CacheError"]
  /\ UNCHANGED <<now, patterns, shot_events, fires, is_running, monitor_thread,
                 in_flight, stopRest>>

NextStopFail ==
  \/ NextStop
  \/ \E point \in {"open", "dump"} : StopPersistFails(point)

SpecStopFail == Init /\ [][NextStopFail]_vars

\* ------------------------------------------------- learning service actions

\* inputs of the learning service's API
Hashes == {"a", "b"}
ManualReasoning == <<"manual">>
ManualConfidence == 90
Limits == 0..FewShotLimit
OptionalOutcomes == {None} \cup {<<o>> : o \in Outcomes}

InitLearn ==
  /\ InitServices
  /\ NoExamplesFile
  /\ hamming_threshold = HashSize
  /\ max_examples_per_outcome \in 0..MaxCap

LearnCall ==
  /\ ops < MaxLearnOps
  /\ ops' = ops + 1
  /\ UNCHANGED <<now, cacheVars, hitCalls, recentAdds, detectorVars, shot_events,
                 monitorHist, cache_file, stopVars, max_examples_per_outcome,
                 extVars>>

\* add_correction; fails: the write of corrections.json fails
AddCorrectionCall(original, corrected, fails) ==
  /\ LearnCall
  /\ Len(corrections) < MaxCorrections
  /\ corrections' = Append(corrections, CorrectionToDict(original, corrected, now))
  /\ corrections_file' = SaveCorrections(corrections_file, corrections', fails)
  /\ io_failed' = (io_failed \/ fails)
  /\ last' = [op |-> "add_correction", fails |-> fails, error |-> SaveError(fails)]
  /\ UNCHANGED <<few_shot_examples, examples_file, added>>

\* add_few_shot_example; fails: the write of few_shot_examples.json fails
AddFewShotExampleCall(outcome, screenshot_hash, fails) ==
  /\ LearnCall
  /\ few_shot_examples' =
       AddFewShotExample(few_shot_examples, max_examples_per_outcome, outcome,
                         screenshot_hash, ManualReasoning, ManualConfidence)
  /\ examples_file' = SaveExamples(examples_file, few_shot_examples', fails)
  /\ added' = Append(added, Example(outcome, screenshot_hash, ManualReasoning,
                                    ManualConfidence))
  /\ io_failed' = (io_failed \/ fails)
  /\ last' = [op |-> "add_few_shot_example", outcome |-> outcome,
              fails |-> fails, error |-> SaveError(fails)]
  /\ UNCHANGED <<corrections, corrections_file>>

\* promote_correction_to_example
PromoteCall(correction_index, fails) ==
  /\ LearnCall
  /\ LET r == PromoteCorrectionToExample(corrections, few_shot_examples,
                                         max_examples_per_outcome, correction_index)
     IN IF r.error # "none"
        THEN /\ ~fails
             /\ last' = [op |-> "promote_correction_to_example",
                         index |-> correction_index, fails |-> FALSE,
                         error |-> r.error]
             /\ UNCHANGED <<few_shot_examples, examples_file, added, io_failed>>
        ELSE /\ few_shot_examples' = r.few_shot_examples
             /\ examples_file' = SaveExamples(examples_file, few_shot_examples', fails)
             /\ added' = Append(added, r.example)
             /\ io_failed' = (io_failed \/ fails)
             /\ last' = [op |-> "promote_correction_to_example",
                         index |-> correction_index, fails |-> fails,
                         error |-> SaveError(fails)]
  /\ UNCHANGED <<corrections, corrections_file>>

\* clear_corrections
ClearCorrectionsCall(fails) ==
  /\ LearnCall
  /\ corrections' = <<>>
  /\ corrections_file' = SaveCorrections(corrections_file, corrections', fails)
  /\ io_failed' = (io_failed \/ fails)
  /\ last' = [op |-> "clear_corrections", fails |-> fails, error |-> SaveError(fails)]
  /\ UNCHANGED <<few_shot_examples, examples_file, added>>

\* clear_examples
ClearExamplesCall(fails) ==
  /\ LearnCall
  /\ few_shot_examples' = <<>>
  /\ examples_file' = SaveExamples(examples_file, few_shot_examples', fails)
  /\ added' = <<>>
  /\ io_failed' = (io_failed \/ fails)
  /\ last' = [op |-> "clear_examples", fails |-> fails, error |-> SaveError(fails)]
  /\ UNCHANGED <<corrections, corrections_file>>

\* get_few_shot_examples
GetFewShotExamplesCall(outcome, limit) ==
  /\ LearnCall
  /\ last' = [op |-> "get_few_shot_examples", outcome |-> outcome, limit |-> limit,
              result |-> GetFewShotExamples(few_shot_examples, outcome, limit)]
  /\ UNCHANGED <<corrections, learnVars>>

NextLearn ==
  \/ \E o, c \in Outcomes, fails \in BOOLEAN :
        o # c /\ AddCorrectionCall(o, c, fails)
  \/ \E o \in Outcomes, h \in Hashes, fails \in BOOLEAN :
        AddFewShotExampleCall(o, h, fails)
  \/ \E i \in -1..MaxCorrections, fails \in BOOLEAN : PromoteCall(i, fails)
  \/ \E fails \in BOOLEAN : ClearCorrectionsCall(fails)
  \/ \E fails \in BOOLEAN : ClearExamplesCall(fails)
  \/ \E o \in OptionalOutcomes, limit \in Limits : GetFewShotExamplesCall(o, limit)

SpecLearn == InitLearn /\ [][NextLearn]_vars

\* A service constructed on an examples file left by earlier runs: every
\* key holds 1..MaxStored examples.
StoredLists(outcome) ==
  UNION { [1..n -> {Example(outcome, h, ManualReasoning, ManualConfidence) : h \in Hashes}]
          : n \in 1..MaxStored }

StoredExamples ==
  {<<>>}
    \cup { <<[key |-> o, examples |-> l]>> : o \in Outcomes, l \in StoredLists("water") \cup StoredLists("bunker") }
    \cup { <<[key |-> o1, examples |-> l1], [key |-> o2, examples |-> l2]>> :
             o1 \in Outcomes, o2 \in Outcomes,
             l1 \in StoredLists("water") \cup StoredLists("bunker"),
             l2 \in StoredLists("water") \cup StoredLists("bunker") }

WellKeyed(examples) ==
  /\ \A i \in 1..Len(examples) :
        \A j \in 1..Len(examples[i].examples) :
           examples[i].examples[j].outcome = examples[i].key
  /\ \A i, j \in 1..Len(examples) : i # j => examples[i].key # examples[j].key

InitExamples ==
  /\ InitServices
  /\ hamming_threshold = HashSize
  /\ max_examples_per_outcome = DefaultMaxExamples
  /\ examples_file \in {<<[examples |-> e]>> : e \in {x \in StoredExamples : WellKeyed(x)}}
  /\ few_shot_examples = LoadExamples(examples_file)

NextExamples ==
  \E o \in OptionalOutcomes, limit \in Limits : GetFewShotExamplesCall(o, limit)

SpecExamples == InitExamples /\ [][NextExamples]_vars

\* ------------------------------------------------------ get_stats / clear

\* sum(p.hit_count for p in self.patterns.values())
RECURSIVE TotalHits(_, _)
TotalHits(pats, i) ==
  IF i > Len(pats) THEN 0 ELSE pats[i].hit_count + TotalHits(pats, i + 1)

\* statistics whose rate is hits per stored pattern
MutGetStatsPerPattern(pats) ==
  LET total_patterns == Len(pats)
      total_hits == TotalHits(pats, 1)
  IN [total_patterns |-> total_patterns, total_hits |-> total_hits,
      hit_rate |-> IF total_patterns > 0 THEN <<total_hits, total_patterns>>
                   ELSE <<0, 1>>]

\* get_stats; the quotient hit_rate is kept as <<numerator, denominator>>
GetStats(pats) ==
  LET total_patterns == Len(pats)
      total_hits == TotalHits(pats, 1)
      total_lookups == total_patterns + total_hits
  IN [total_patterns |-> total_patterns, total_hits |-> total_hits,
      hit_rate |-> IF total_lookups > 0 THEN <<total_hits, total_lookups>>
                   ELSE <<0, 1>>]

\* a clear that leaves the cache file in place
MutClearKeepsFile(file) == file

\* clear(): the cache file is unlinked when it exists
ClearFile(file) == None

adminRest == <<hamming_threshold, hitCalls, detectorVars, monitorVars,
               monitorHist, stopVars, learnVars, fireVars, threadVars,
               captureVars, appVars>>

GetStatsCall ==
  /\ ops < MaxOps
  /\ ops' = ops + 1
  /\ now' = now + 1
  /\ last' = [op |-> "get_stats", frame |-> None, outcome |-> None,
              confidence |-> None, result |-> GetStats(patterns)]
  /\ UNCHANGED <<patterns, recentAdds, cache_file, cleared, adminRest>>

ClearCall ==
  /\ ops < MaxOps
  /\ ops' = ops + 1
  /\ now' = now + 1
  /\ patterns' = <<>>
  /\ cache_file' = ClearFile(cache_file)
  /\ recentAdds' = <<>>
  /\ cleared' = TRUE
  /\ last' = [op |-> "clear", frame |-> None, outcome |-> None,
              confidence |-> None, result |-> None,
              had_file |-> cache_file # None, had_patterns |-> Len(patterns)]
  /\ UNCHANGED adminRest

NextAdmin ==
  \/ NextPersist
  \/ GetStatsCall
  \/ ClearCall

SpecAdmin == Init /\ [][NextAdmin]_vars

\* ------------------------------------------------ threads sharing the cache
\* Every method of PatternCacheService runs its body inside
\* `with self._lock`. A thread enters a call by acquiring the lock and
\* releases it when the body is left. The body of find_match is two steps,
\* the scan that reads the entry and the write of `hit_count += 1`; the
\* other bodies are one step. The monitor thread may run _process_shot,
\* whose classifier call lies between its find_match and its add_pattern.

\* an acquire that never waits
MutLockAlwaysFree(lock) == TRUE

\* threading.Lock.acquire() returns only when no thread holds the lock
LockFree(lock) == lock = None

\* a lock still held by the caller after its call has returned
MutHeldAfterReturn(t) == <<t>>

\* leaving the with block: the lock is released
Released(t) == None

threadsRest == <<now, hamming_threshold, detectorVars, corrections, monitorHist,
                 stopVars, learnVars, fireVars, captureVars, appVars>>

\* `with self._lock:` at the head of a cache method; shot: the call is the
\* find_match of _process_shot
Enter(t, op, frame, outcome, confidence, shot) ==
  /\ threads[t].pc = "idle"
  /\ ops < MaxThreadCalls
  /\ LockFree(cache_lock)
  /\ ops' = ops + 1
  /\ cache_lock' = <<t>>
  /\ threads' = [threads EXCEPT ![t] =
                   [pc |-> "locked", op |-> op, frame |-> frame,
                    outcome |-> outcome, confidence |-> confidence,
                    shot |-> shot, api_cost |-> 0]]
  /\ UNCHANGED <<last, patterns, hitCalls, recentAdds, shot_events, cache_file,
                 cleared, hitsOn, threadsRest>>

\* find_match: the scan; a miss returns None, a hit reads the entry
FmScan(t) ==
  /\ threads[t].pc = "locked"
  /\ threads[t].op = "find_match"
  /\ LET b == BestMatch(patterns, threads[t].frame, hamming_threshold)
     IN IF b = 0
        THEN /\ cache_lock' = Released(t)
             /\ threads' = [threads EXCEPT ![t] =
                              IF threads[t].shot
                              THEN [pc |-> "analyze_shot",
                                    frame |-> threads[t].frame]
                              ELSE Idle]
             /\ last' = [op |-> "find_match", thread |-> t, result |-> None]
        ELSE /\ threads' = [threads EXCEPT ![t] =
                              [pc |-> "fm_write", frame |-> threads[t].frame,
                               shot |-> threads[t].shot,
                               key |-> patterns[b].key,
                               read |-> patterns[b].hit_count]]
             /\ UNCHANGED <<cache_lock, last>>
  /\ UNCHANGED <<patterns, hitCalls, recentAdds, ops, shot_events, cache_file,
                 cleared, hitsOn, threadsRest>>

\* find_match: best_match.hit_count += 1, last_used, return; in
\* _process_shot the hit is then recorded as a cached shot
FmWrite(t) ==
  /\ threads[t].pc = "fm_write"
  /\ LET i == KeyIndex(patterns, threads[t].key)
     IN /\ patterns' = [patterns EXCEPT ![i].hit_count = threads[t].read + 1,
                                        ![i].last_used = IsoFormat(now)]
        /\ last' = [op |-> "find_match", thread |-> t,
                    result |-> <<patterns[i].outcome, patterns[i].confidence>>]
        /\ shot_events' =
             IF threads[t].shot
             THEN Append(shot_events,
                         ShotEvent(threads[t].frame, patterns[i].outcome,
                                   patterns[i].confidence, TRUE, 0))
             ELSE shot_events
  /\ hitsOn' = [hitsOn EXCEPT ![threads[t].key] = @ + 1]
  /\ hitCalls' = hitCalls + 1
  /\ cache_lock' = Released(t)
  /\ threads' = [threads EXCEPT ![t] = Idle]
  /\ UNCHANGED <<recentAdds, ops, cache_file, cleared, threadsRest>>

\* add_pattern's body; in _process_shot the shot is then recorded
AddBody(t) ==
  /\ threads[t].pc = "locked"
  /\ threads[t].op = "add_pattern"
  /\ patterns' = AddPatternStore(patterns, threads[t].frame, threads[t].outcome,
                                 threads[t].confidence, now)
  /\ recentAdds' =
       LET a == [frame |-> threads[t].frame, outcome |-> threads[t].outcome,
                 confidence |-> threads[t].confidence]
       IN IF recentAdds = <<>> THEN <<a>>
          ELSE <<recentAdds[Len(recentAdds)], a>>
  /\ cleared' = FALSE
  /\ shot_events' =
       IF threads[t].shot
       THEN Append(shot_events,
                   ShotEvent(threads[t].frame, threads[t].outcome,
                             threads[t].confidence, FALSE, threads[t].api_cost))
       ELSE shot_events
  /\ last' = [op |-> "add_pattern", thread |-> t, result |-> None]
  /\ cache_lock' = Released(t)
  /\ threads' = [threads EXCEPT ![t] = Idle]
  /\ UNCHANGED <<hitCalls, ops, cache_file, hitsOn, threadsRest>>

\* update_confidence's body
UpdateBody(t) ==
  /\ threads[t].pc = "locked"
  /\ threads[t].op = "update_confidence"
  /\ patterns' = UpdateConfidenceStore(patterns, threads[t].frame,
                                       threads[t].confidence)
  /\ recentAdds' = <<>>
  /\ last' = [op |-> "update_confidence", thread |-> t, result |-> None]
  /\ cache_lock' = Released(t)
  /\ threads' = [threads EXCEPT ![t] = Idle]
  /\ UNCHANGED <<hitCalls, ops, shot_events, cache_file, cleared, hitsOn,
                 threadsRest>>

\* get_stats's body
StatsBody(t) ==
  /\ threads[t].pc = "locked"
  /\ threads[t].op = "get_stats"
  /\ last' = [op |-> "get_stats", thread |-> t, result |-> GetStats(patterns)]
  /\ cache_lock' = Released(t)
  /\ threads' = [threads EXCEPT ![t] = Idle]
  /\ UNCHANGED <<patterns, hitCalls, recentAdds, ops, shot_events, cache_file,
                 cleared, hitsOn, threadsRest>>

\* persist's body
PersistBody(t) ==
  /\ threads[t].pc = "locked"
  /\ threads[t].op = "persist"
  /\ cache_file' = <<PersistData(patterns)>>
  /\ last' = [op |-> "persist", thread |-> t, result |-> None]
  /\ cache_lock' = Released(t)
  /\ threads' = [threads EXCEPT ![t] = Idle]
  /\ UNCHANGED <<patterns, hitCalls, recentAdds, ops, shot_events, cleared,
                 hitsOn, threadsRest>>

\* _process_shot after a miss: analyze_shot returns or raises; a confident
\* reply goes on to add_pattern, any other ends the shot
ClassifierReply(t, reply) ==
  /\ threads[t].pc = "analyze_shot"
  /\ IF ~reply.ok
     THEN /\ threads' = [threads EXCEPT ![t] = Idle]
          /\ last' = [op |-> "_process_shot", thread |-> t,
                      result |-> "AIServiceError"]
          /\ UNCHANGED shot_events
     ELSE IF ShouldCache(reply.confidence)
     THEN /\ threads' = [threads EXCEPT ![t] =
                           [pc |-> "add_wait", op |-> "add_pattern",
                            frame |-> threads[t].frame,
                            outcome |-> reply.outcome,
                            confidence |-> reply.confidence, shot |-> TRUE,
                            api_cost |-> CalculateApiCost(reply.usage)]]
          /\ UNCHANGED <<last, shot_events>>
     ELSE /\ threads' = [threads EXCEPT ![t] = Idle]
          /\ shot_events' =
               Append(shot_events,
                      ShotEvent(threads[t].frame, reply.outcome,
                                reply.confidence, FALSE,
                                CalculateApiCost(reply.usage)))
          /\ last' = [op |-> "_process_shot", thread |-> t, result |-> "none"]
  /\ UNCHANGED <<patterns, hitCalls, recentAdds, ops, cache_file, cleared,
                 cache_lock, hitsOn, threadsRest>>

\* `with self._lock:` at the head of _process_shot's add_pattern
EnterAdd(t) ==
  /\ threads[t].pc = "add_wait"
  /\ LockFree(cache_lock)
  /\ cache_lock' = <<t>>
  /\ threads' = [threads EXCEPT ![t].pc = "locked"]
  /\ UNCHANGED <<last, patterns, hitCalls, recentAdds, ops, shot_events,
                 cache_file, cleared, hitsOn, threadsRest>>

NextThreads ==
  \/ \E t \in Threads, f \in Frames : Enter(t, "find_match", f, None, None, FALSE)
  \/ \E f \in Frames : Enter("monitor", "find_match", f, None, None, TRUE)
  \/ \E t \in Threads, f \in Frames, o \in Outcomes :
        Enter(t, "add_pattern", f, o, 90, FALSE)
  \/ \E t \in Threads, f \in Frames : Enter(t, "update_confidence", f, None, 50, FALSE)
  \/ \E t \in Threads : Enter(t, "get_stats", None, None, None, FALSE)
  \/ \E t \in Threads : Enter(t, "persist", None, None, None, FALSE)
  \/ \E t \in Threads : FmScan(t)
  \/ \E t \in Threads : FmWrite(t)
  \/ \E t \in Threads : AddBody(t)
  \/ \E t \in Threads : UpdateBody(t)
  \/ \E t \in Threads : StatsBody(t)
  \/ \E t \in Threads : PersistBody(t)
  \/ \E t \in Threads, r \in ClassifierReplies : ClassifierReply(t, r)
  \/ \E t \in Threads : EnterAdd(t)

SpecThreads == Init /\ [][NextThreads]_vars

\* ------------------------------------------------------------ screen capture
\* The capture thread (_monitor_loop) stores frames in latest_frame; the
\* consumer polls get_latest_frame. Each stored frame carries the number of
\* its capture.

captureRest == <<now, cacheVars, cacheHist, detectorVars, monitorVars,
                 monitorHist, cache_file, stopVars, learnVars, fireVars,
                 cleared, threadVars, appVars>>

\* start_monitoring
StartMonitoring ==
  /\ ~monitoring
  /\ capture_thread.pc \in {"none", "exited"}
  /\ monitoring' = TRUE
  /\ capture_thread' = [pc |-> "check"]
  /\ last' = [op |-> "start_monitoring"]
  /\ UNCHANGED <<latest_frame, captured, delivered, captureRest>>

\* _monitor_loop: `while self.monitoring` holds and the screen is grabbed
CaptureGrab(frame) ==
  /\ capture_thread.pc = "check"
  /\ monitoring
  /\ captured < MaxCaptures
  /\ capture_thread' = [pc |-> "grab", frame |-> frame]
  /\ UNCHANGED <<last, monitoring, latest_frame, captured, delivered,
                 captureRest>>

\* _monitor_loop: self.latest_frame = img_rgb, then sleep
CaptureStore ==
  /\ capture_thread.pc = "grab"
  /\ latest_frame' = <<[id |-> captured + 1, frame |-> capture_thread.frame]>>
  /\ captured' = captured + 1
  /\ capture_thread' = [pc |-> "check"]
  /\ UNCHANGED <<last, monitoring, delivered, captureRest>>

\* _monitor_loop: `while self.monitoring` fails and the thread ends
CaptureExit ==
  /\ capture_thread.pc = "check"
  /\ ~monitoring
  /\ capture_thread' = [pc |-> "exited"]
  /\ UNCHANGED <<last, monitoring, latest_frame, captured, delivered,
                 captureRest>>

\* get_latest_frame: a copy of latest_frame, or None
GetLatestFrame ==
  /\ Len(delivered) < MaxPolls
  /\ delivered' = IF latest_frame = None THEN delivered
                  ELSE Append(delivered, latest_frame[1].id)
  /\ last' = [op |-> "get_latest_frame", result |-> latest_frame]
  /\ UNCHANGED <<monitoring, latest_frame, capture_thread, captured,
                 captureRest>>

\* stop_monitoring: the flag is cleared, the thread is joined for up to two
\* seconds, latest_frame is set to None. A sleeping thread ends within the
\* time-out; a thread inside a grab may outlast it (timed_out) and store
\* its frame afterwards.
StopMonitoring(timed_out) ==
  /\ monitoring
  /\ timed_out => capture_thread.pc = "grab"
  /\ monitoring' = FALSE
  /\ capture_thread' = IF timed_out THEN capture_thread ELSE [pc |-> "exited"]
  /\ latest_frame' = None
  /\ captured' = IF ~timed_out /\ capture_thread.pc = "grab"
                 THEN captured + 1 ELSE captured
  /\ last' = [op |-> "stop_monitoring"]
  /\ UNCHANGED <<delivered, captureRest>>

NextCapture ==
  \/ StartMonitoring
  \/ \E f \in Frames : CaptureGrab(f)
  \/ CaptureStore
  \/ CaptureExit
  \/ GetLatestFrame
  \/ \E timed_out \in BOOLEAN : StopMonitoring(timed_out)

SpecCapture == Init /\ [][NextCapture]_vars

\* ------------------------------------------------ constructing the services
\* a constructor that takes an unreadable file for a missing one
MutPatternCacheInitLenient(file, threshold) ==
  [error |-> "none",
   instance |-> <<[hamming_threshold |-> threshold,
                   patterns |-> IF file # None /\ JsonLoads(file)
                                THEN LoadStore(file, <<>>) ELSE <<>>]>>]

\* PatternCacheService.__init__: the exception raised and the instance made
PatternCacheInit(file, threshold) ==
  IF file # None /\ ~JsonLoads(file)
  THEN [error |-> "CacheError", instance |-> None]
  ELSE [error |-> "none",
        instance |-> <<[hamming_threshold |-> threshold,
                        patterns |-> LoadStore(file, <<>>)]>>]

\* LearningService.__init__: _load_corrections, then _load_examples
LearningInit(cfile, efile, cap) ==
  IF cfile # None /\ ~JsonLoads(cfile)
  THEN [error |-> "LearningError", instance |-> None]
  ELSE IF efile # None /\ ~JsonLoads(efile)
  THEN [error |-> "LearningError", instance |-> None]
  ELSE [error |-> "none",
        instance |-> <<[max_examples_per_outcome |-> cap,
                        corrections |-> LoadCorrections(cfile),
                        few_shot_examples |-> LoadExamples(efile)]>>]

\* the backing files a data directory may hold at start-up: none, one
\* written by an earlier run, or one that was damaged
StoredCacheFiles ==
  {None, Garbage, <<PersistData(<<>>)>>}
    \cup {<<PersistData(AddPatternStore(<<>>, f, o, c, 0))>> :
             f \in Frames, o \in Outcomes, c \in CacheConfidences}

StoredCorrectionsFiles ==
  {None, Garbage, SaveCorrections(None, <<>>, FALSE)}
    \cup {SaveCorrections(None, <<CorrectionToDict(o, c, 0)>>, FALSE) :
             o \in Outcomes, c \in Outcomes}

StoredExamplesFiles ==
  {None, Garbage, SaveExamples(None, <<>>, FALSE)}
    \cup {SaveExamples(None,
                       AddFewShotExample(<<>>, DefaultMaxExamples, o, h,
                                         ManualReasoning, ManualConfidence),
                       FALSE) : o \in Outcomes, h \in Hashes}

\* the process before _init_services has constructed anything
InitStartup ==
  /\ InitMemory
  /\ hamming_threshold = HashSize
  /\ max_examples_per_outcome = DefaultMaxExamples
  /\ few_shot_examples = <<>>
  /\ cache_file \in StoredCacheFiles
  /\ corrections_file \in StoredCorrectionsFiles
  /\ examples_file \in StoredExamplesFiles

StartupCall ==
  /\ ops < MaxOps
  /\ ops' = ops + 1
  /\ UNCHANGED <<now, hamming_threshold, hitCalls, recentAdds, detectorVars,
                 shot_events, monitorHist, cache_file, stopVars,
                 max_examples_per_outcome, corrections_file, examples_file,
                 added, io_failed, extVars>>

\* self.pattern_cache = PatternCacheService(...): when the constructor
\* raises, the attribute is not assigned
ConstructPatternCache ==
  /\ StartupCall
  /\ LET r == PatternCacheInit(cache_file, hamming_threshold)
     IN /\ patterns' = IF r.error = "none" THEN r.instance[1].patterns ELSE patterns
        /\ last' = [op |-> "PatternCacheService", error |-> r.error,
                    instance |-> r.instance]
  /\ UNCHANGED <<corrections, few_shot_examples>>

\* self.learning_service = LearningService(...)
ConstructLearning ==
  /\ StartupCall
  /\ LET r == LearningInit(corrections_file, examples_file,
                           max_examples_per_outcome)
     IN /\ corrections' = IF r.error = "none" THEN r.instance[1].corrections
                          ELSE corrections
        /\ few_shot_examples' =
             IF r.error = "none" THEN r.instance[1].few_shot_examples
             ELSE few_shot_examples
        /\ last' = [op |-> "LearningService", error |-> r.error,
                    instance |-> r.instance]
  /\ UNCHANGED patterns

NextStartup ==
  \/ ConstructPatternCache
  \/ ConstructLearning

SpecStartup == InitStartup /\ [][NextStartup]_vars

\* ------------------------------------------------- the motion detector's API
\* The segmenter driven through its own methods: analyze_frame,
\* on_shot_detected, check_and_fire_shot_event and reset.

\* a fired boundary that leaves the motion flag and the timer as they were
MutCheckAndFireKeepsMotion(detected, lmt, callback, current_frame, t) ==
  IF IsBallStopped(detected, lmt, t)
  THEN [result |-> TRUE, motion_detected |-> detected,
        last_motion_time |-> lmt, last_shot_frame |-> <<current_frame>>,
        invoked |-> callback]
  ELSE [result |-> FALSE, motion_detected |-> detected,
        last_motion_time |-> lmt, last_shot_frame |-> None,
        invoked |-> FALSE]

\* check_and_fire_shot_event: its return value, the fields it assigns
\* (last_shot_frame None: not assigned) and whether shot_callback is invoked
CheckAndFire(detected, lmt, callback, current_frame, t) ==
  IF IsBallStopped(detected, lmt, t)
  THEN [result |-> TRUE, motion_detected |-> FALSE,
        last_motion_time |-> None, last_shot_frame |-> <<current_frame>>,
        invoked |-> callback]
  ELSE [result |-> FALSE, motion_detected |-> detected,
        last_motion_time |-> lmt, last_shot_frame |-> None,
        invoked |-> FALSE]

\* a reset that forgets the frames but keeps the motion flag and the timer
MutResetKeepsMotion ==
  [previous_frame |-> None, last_motion_time |-> last_motion_time,
   motion_detected |-> motion_detected, last_shot_frame |-> None]

\* the fields reset() assigns
Reset ==
  [previous_frame |-> None, last_motion_time |-> None,
   motion_detected |-> FALSE, last_shot_frame |-> None]

detectorRest == <<cacheVars, cacheHist, monitorVars, cache_file, stopVars,
                  learnVars, cleared, threadVars, captureVars, appVars>>

\* on_shot_detected(callback)
OnShotDetected ==
  /\ ~shot_callback
  /\ shot_callback' = TRUE
  /\ last' = [op |-> "on_shot_detected"]
  /\ UNCHANGED <<now, detectorVars, monitorHist, last_shot_frame, callbacks,
                 detectorRest>>

\* analyze_frame(frame)
AnalyzeFrameCall(frame, sample) ==
  /\ LET m == MotionAfter(sample)
     IN /\ previous_frame' = frame
        /\ motion_detected' = m.motion_detected
        /\ last_motion_time' = m.last_motion_time
        /\ last' = [op |-> "analyze_frame", frame |-> frame, sample |-> sample,
                    result |-> m.has_motion]
  /\ Episode(sample, FALSE)
  /\ UNCHANGED <<now, fireVars, detectorRest>>

\* check_and_fire_shot_event(current_frame)
CheckAndFireCall(current_frame) ==
  /\ LET r == CheckAndFire(motion_detected, last_motion_time, shot_callback,
                           current_frame, now)
     IN /\ motion_detected' = r.motion_detected
        /\ last_motion_time' = r.last_motion_time
        /\ last_shot_frame' = IF r.result THEN r.last_shot_frame
                              ELSE last_shot_frame
        /\ callbacks' = IF r.invoked THEN Append(callbacks, current_frame)
                        ELSE callbacks
        /\ fires' = IF r.result THEN fires + 1 ELSE fires
        /\ lastQual' = IF r.result THEN None ELSE lastQual
        /\ last' = [op |-> "check_and_fire_shot_event",
                    frame |-> current_frame, result |-> r.result]
  /\ UNCHANGED <<now, previous_frame, episodes, shot_callback, detectorRest>>

\* reset()
ResetCall ==
  /\ previous_frame' = Reset.previous_frame
  /\ last_motion_time' = Reset.last_motion_time
  /\ motion_detected' = Reset.motion_detected
  /\ last_shot_frame' = Reset.last_shot_frame
  /\ lastQual' = None
  /\ last' = [op |-> "reset",
              was_stopped |-> IsBallStopped(motion_detected, last_motion_time, now)]
  /\ UNCHANGED <<now, fires, episodes, shot_callback, callbacks, detectorRest>>

NextDetector ==
  \/ Tick
  \/ OnShotDetected
  \/ \E f \in Frames, s \in NextSamples : AnalyzeFrameCall(f, s)
  \/ \E f \in Frames : CheckAndFireCall(f)
  \/ ResetCall

SpecDetector == Init /\ [][NextDetector]_vars

\* --------------------------------------------------------- claim vocabulary
\* the fingerprint stored in entry i, and its distance to a query frame
Fingerprint(pats, i) == HexToHash(pats[i].hash)
Dist(pats, i, q) == HammingDistance(ComputeHash(q), Fingerprint(pats, i))
Below(pats, q, threshold) == {i \in 1..Len(pats) : Dist(pats, i, q) < threshold}
Nearest(pats, q, threshold) ==
  LET d == [i \in 1..Len(pats) |-> Dist(pats, i, q)]
  IN {i \in 1..Len(pats) :
        d[i] < threshold /\ \A j \in 1..Len(pats) : d[i] <= d[j]}

\* the entries of the store that differ between two stores of equal length
Changed(old, new) == {i \in 1..Len(old) : old[i] # new[i]}

\* ---------------------------------------------------------- monitor claims

\* a step that is one iteration of _monitoring_loop on a frame
LoopStep == now' = now /\ last'.op = "loop"

\* a motion sample that qualifies as motion
Qualifying(sample) ==
  sample.motion_ratio > MotionThreshold /\ sample.is_vertical

\* C1: in the monitoring loop the shot boundary of a motion episode fires
\* exactly once, on the first polled frame at which at least
\* ball_stop_duration has passed since the episode's last qualifying frame,
\* and never on a frame that itself qualified as motion.
C1_BoundaryOncePerEpisode ==
  /\ [][LoopStep =>
          /\ last'.fired <=>
               ( /\ lastQual # None
                 /\ ~Qualifying(last'.sample)
                 /\ now - lastQual[1] >= BallStopTicks )
          /\ last'.fired => ~Qualifying(last'.sample)
      ]_vars
  /\ [](fires = IF lastQual = None THEN episodes ELSE episodes - 1)

\* C1 happens: the boundary of the first episode has just fired, on a
\* non-qualifying frame polled ball_stop_duration after the qualifying frame
\* polled at time 1.
C1_Witness ==
  /\ last.op = "loop"
  /\ last.fired
  /\ ~Qualifying(last.sample)
  /\ episodes = 1
  /\ fires = 1
  /\ now = 1 + BallStopTicks

\* C2: every _process_shot call (one per fired boundary) appends exactly one
\* ShotEvent to the session, whatever the collaborators do.
C2_OneEventPerBoundary ==
  [][(LoopStep /\ last'.fired) =>
       Len(shot_events') = Len(shot_events) + 1]_vars

\* C3: when analyze_shot fails on a cache miss the shot is still recorded,
\* with outcome unknown, confidence 0 and was_cached false, and nothing is
\* inserted into the cache.
C3_ClassifierFailureReported ==
  [][( /\ LoopStep
       /\ last'.fired
       /\ Called(last'.calls, "analyze_shot")
       /\ ~last'.collaborators.classifier.ok ) =>
       /\ patterns' = patterns
       /\ Len(shot_events') = Len(shot_events) + 1
       /\ LET e == shot_events'[Len(shot_events')]
          IN /\ e.detected_outcome = UNKNOWN
             /\ e.confidence = 0
             /\ e.was_cached = FALSE
    ]_vars

\* C6: once a correction has been recorded for the most recent shot, the
\* cache holds the corrected outcome with confidence 1.0 under that shot's
\* fingerprint.
C6_CorrectionReachesCache ==
  last.op = "add_correction" =>
    \E i \in 1..Len(patterns) :
       /\ patterns[i].key = last.screenshot_hash
       /\ patterns[i].outcome = last.corrected_outcome
       /\ patterns[i].confidence = 100

\* C7: on the cache-miss path of _process_shot, add_pattern is called if and
\* only if the classifier's confidence is >= min_confidence_to_cache; the
\* call stores the classifier's result under the frame's fingerprint, and
\* below the threshold the store is the same after the shot as before.
C7_CacheOnlyConfident ==
  [][( /\ LoopStep
       /\ last'.fired
       /\ ~last'.collaborators.achievement
       /\ Below(patterns, last'.frame, hamming_threshold) = {} ) =>
       LET reply == last'.collaborators.classifier
           confident == reply.ok /\ reply.confidence >= MinConfidenceToCache
       IN /\ Called(last'.calls, "add_pattern") <=> confident
          /\ confident =>
               /\ Len(patterns') = Len(patterns) + 1
               /\ SubSeq(patterns', 1, Len(patterns)) = patterns
               /\ LET e == patterns'[Len(patterns')]
                  IN /\ Fingerprint(patterns', Len(patterns')) = ComputeHash(last'.frame)
                     /\ e.outcome = reply.outcome
                     /\ e.confidence = reply.confidence
          /\ ~confident => patterns' = patterns
    ]_vars

\* C7 happens: a classifier result of confidence 0.5 on a miss is recorded
\* as a shot and is not in the cache afterwards.
C7_Witness ==
  /\ last.op = "loop"
  /\ last.fired
  /\ Called(last.calls, "analyze_shot")
  /\ last.collaborators.classifier.ok
  /\ last.collaborators.classifier.confidence = 50
  /\ ~Called(last.calls, "add_pattern")
  /\ Len(shot_events) = 1
  /\ patterns = <<>>

\* how often _process_shot made the call `name`
TimesCalled(calls, name) == Cardinality({i \in 1..Len(calls) : calls[i] = name})

\* C12: when find_match hits in _process_shot, analyze_shot is not called
\* and the recorded ShotEvent has was_cached = true and api_cost = 0; when it
\* misses, analyze_shot is called exactly once and the recorded event has
\* was_cached = false.
C12_HitSkipsClassifier ==
  [][(LoopStep /\ last'.fired /\ Called(last'.calls, "find_match")) =>
       LET hit == Below(patterns, last'.frame, hamming_threshold) # {}
           recorded == Len(shot_events') = Len(shot_events) + 1
           e == shot_events'[Len(shot_events')]
       IN /\ TimesCalled(last'.calls, "find_match") = 1
          /\ recorded \/ shot_events' = shot_events
          /\ IF hit
             THEN /\ TimesCalled(last'.calls, "analyze_shot") = 0
                  /\ recorded => (e.was_cached /\ e.api_cost = 0)
             ELSE /\ TimesCalled(last'.calls, "analyze_shot") = 1
                  /\ recorded => (~e.was_cached)
    ]_vars

\* C12 happens: a second shot on a frame the first shot cached is recorded
\* from the cache, without a classifier call.
C12_Witness ==
  /\ last.op = "loop"
  /\ last.fired
  /\ Called(last.calls, "find_match")
  /\ ~Called(last.calls, "analyze_shot")
  /\ Len(shot_events) = 2
  /\ ~shot_events[1].was_cached
  /\ shot_events[1].api_cost > 0
  /\ shot_events[2].was_cached
  /\ shot_events[2].api_cost = 0
  /\ shot_events[2].detected_outcome = shot_events[1].detected_outcome

\* C13: when stop is requested while a classifier call is in flight, the
\* cache is persisted only after that shot has finished: once shutdown has
\* completed (the tray thread is done and the monitor thread has ended),
\* every pattern in the in-memory cache is in the persisted cache file.
C13_InFlightShotPersisted ==
  (tray = "done" /\ monitor_thread = "exited") =>
    \A i \in 1..Len(patterns) :
       \E j \in 1..Len(LoadStore(cache_file, <<>>)) :
          LoadStore(cache_file, <<>>)[j].hash = patterns[i].hash

\* -------------------------------------------------- learning service claims

\* a step that is one call of the learning service's operation `name`
LearnStep(name) == ops' = ops + 1 /\ last'.op = name

\* the n most recent elements of a sequence, in order (all when n >= Len)
MostRecent(seq, n) ==
  IF n >= Len(seq) THEN seq ELSE SubSeq(seq, Len(seq) - n + 1, Len(seq))

\* the examples of a sequence that are of the given outcome, in order
OfOutcome(seq, outcome) == SelectSeq(seq, LAMBDA e : e.outcome = outcome)

Min(a, b) == IF a <= b THEN a ELSE b

\* C14: starting from an empty store, after every call every outcome's
\* example list has at most max_examples_per_outcome entries, for every
\* cap N >= 0.
C14_ListsWithinCap ==
  \A i \in 1..Len(few_shot_examples) :
     Len(few_shot_examples[i].examples) <= max_examples_per_outcome

\* C15: after k calls of add_few_shot_example for an outcome its list is the
\* most recent min(k, N) examples added for it, in insertion order, whatever
\* get_few_shot_examples returned in between; lists of other outcomes are
\* not touched.
C15_FifoPerOutcome ==
  /\ [](\A o \in Outcomes :
          ExamplesOf(few_shot_examples, o) =
            MostRecent(OfOutcome(added, o),
                       Min(Len(OfOutcome(added, o)), max_examples_per_outcome)))
  /\ [][LearnStep("add_few_shot_example") =>
          \A o \in Outcomes \ {last'.outcome} :
             ExamplesOf(few_shot_examples', o) = ExamplesOf(few_shot_examples, o)
      ]_vars

\* C16: get_few_shot_examples(outcome, limit) with an outcome given returns,
\* for every limit >= 0, at most limit examples, all of that outcome, namely
\* the most recently added ones in insertion order, and leaves the store as
\* it was.
C16_GetForOutcome ==
  [][(LearnStep("get_few_shot_examples") /\ last'.outcome # None) =>
       LET stored == ExamplesOf(few_shot_examples, last'.outcome[1])
       IN /\ Len(last'.result) <= last'.limit
          /\ last'.result = MostRecent(stored, last'.limit)
          /\ \A j \in 1..Len(last'.result) :
                last'.result[j].outcome = last'.outcome[1]
          /\ few_shot_examples' = few_shot_examples
    ]_vars

\* C17: get_few_shot_examples with no outcome returns at most limit examples
\* in total and at most 2 of any outcome, each outcome's share being taken,
\* in order, from its 2 most recently added examples; with the
\* orchestrator's limit of 3 no more than 3 examples are returned.
C17_GetAcrossOutcomes ==
  [][(LearnStep("get_few_shot_examples") /\ last'.outcome = None) =>
       /\ Len(last'.result) <= last'.limit
       /\ last'.limit = FewShotLimit => Len(last'.result) <= 3
       /\ \A o \in Outcomes :
             LET share == OfOutcome(last'.result, o)
                 recent == MostRecent(ExamplesOf(few_shot_examples, o), 2)
             IN /\ Len(share) <= 2
                /\ share = SubSeq(recent, 1, Len(share))
       /\ few_shot_examples' = few_shot_examples
    ]_vars

\* C17 happens: with three examples stored for one outcome and the
\* orchestrator's limit, the two most recent of them are returned and the
\* oldest is not.
C17_Witness ==
  /\ last.op = "get_few_shot_examples"
  /\ last.outcome = None
  /\ last.limit = FewShotLimit
  /\ \E o \in Outcomes :
        /\ Len(ExamplesOf(few_shot_examples, o)) = 3
        /\ ExamplesOf(few_shot_examples, o)[1] # ExamplesOf(few_shot_examples, o)[2]
        /\ OfOutcome(last.result, o) = SubSeq(ExamplesOf(few_shot_examples, o), 2, 3)
  /\ Len(last.result) = 3

\* C18: promote_correction_to_example(i) adds exactly one example, under
\* the corrected outcome of correction i and with confidence 1.0, if and
\* only if 0 <= i < len(corrections); for any other index it raises
\* LearningError and changes neither the examples nor their file; the
\* corrections log is never modified.
C18_PromoteValidIndexOnly ==
  [][LearnStep("promote_correction_to_example") =>
       LET i == last'.index
       IN /\ corrections' = corrections
          /\ corrections_file' = corrections_file
          /\ IF 0 <= i /\ i < Len(corrections)
             THEN LET o == corrections[i + 1].corrected_outcome
                      old == ExamplesOf(few_shot_examples, o)
                      new == ExamplesOf(few_shot_examples', o)
                  IN /\ Len(new) >= 1
                     /\ new[Len(new)].outcome = o
                     /\ new[Len(new)].confidence = 100
                     /\ new[Len(new)].screenshot_hash = "correction"
                     /\ SubSeq(new, 1, Len(new) - 1) = MostRecent(old, Len(new) - 1)
                     /\ \A p \in Outcomes \ {o} :
                           ExamplesOf(few_shot_examples', p) =
                             ExamplesOf(few_shot_examples, p)
             ELSE /\ last'.error = "LearningError"
                  /\ few_shot_examples' = few_shot_examples
                  /\ examples_file' = examples_file
    ]_vars

\* C18 happens: the second of two corrections has been promoted and its
\* example is stored under the corrected outcome.
C18_Witness ==
  /\ last.op = "promote_correction_to_example"
  /\ last.index = 1
  /\ last.error = "none"
  /\ Len(corrections) = 2
  /\ LET l == ExamplesOf(few_shot_examples, corrections[2].corrected_outcome)
     IN /\ Len(l) = 1
        /\ l[1].screenshot_hash = "correction"
        /\ l[1].confidence = 100

C20_WriteFailureSwallowed ==
  [][(ops' = ops + 1
        /\ last'.op \in {"add_correction", "add_few_shot_example",
                         "promote_correction_to_example", "clear_corrections",
                         "clear_examples"}
        /\ last'.fails) =>
       last'.error = "none"]_vars

\* ------------------------------------------------------------ cache claims

\* C11: persist() followed by constructing a fresh service on the same file
\* yields an equal entry set: the same fingerprints, each with the same
\* outcome, confidence, hit_count and last_used.
C11_PersistLoadRoundTrip ==
  [][(last.op = "persist" /\ last'.op = "load" /\ ops' = ops + 1) =>
       /\ Len(patterns') = Len(patterns)
       /\ \A i \in 1..Len(patterns) :
             \E j \in 1..Len(patterns') :
                /\ Fingerprint(patterns', j) = Fingerprint(patterns, i)
                /\ patterns'[j].key = patterns[i].key
                /\ patterns'[j].outcome = patterns[i].outcome
                /\ patterns'[j].confidence = patterns[i].confidence
                /\ patterns'[j].hit_count = patterns[i].hit_count
                /\ patterns'[j].last_used = patterns[i].last_used
    ]_vars

\* C11 happens: a store with an entry that was hit after its insertion has
\* been persisted and loaded by a fresh service.
C11_Witness ==
  /\ last.op = "load"
  /\ cache_file = <<PersistData(patterns)>>
  /\ \E i \in 1..Len(patterns) :
        /\ patterns[i].hit_count = 1
        /\ patterns[i].last_used = IsoFormat(now - 3)

LookupAfterCorrection ==
  /\ last.op = "find_match"
  /\ Len(recentAdds) = 2
  /\ recentAdds[1].frame = last.frame
  /\ recentAdds[2].frame = last.frame
  /\ recentAdds[2].confidence = 100

RECURSIVE SumHits(_, _)
SumHits(pats, n) == IF n = 0 THEN 0 ELSE SumHits(pats, n - 1) + pats[n].hit_count

\* C8: a find_match that hits increases the hit_count of the returned entry
\* by exactly 1 and sets its last_used to the time of the call; a miss
\* changes no hit_count; from an empty cache the hit_counts add up to the
\* number of find_match calls that hit.
C8_HitCount ==
  /\ [][last'.op = "find_match" =>
          /\ Len(patterns') = Len(patterns)
          /\ last'.result = None =>
               \A i \in 1..Len(patterns) :
                  patterns'[i].hit_count = patterns[i].hit_count
          /\ last'.result # None =>
               \E i \in 1..Len(patterns) :
                  /\ last'.result = <<patterns[i].outcome, patterns[i].confidence>>
                  /\ Dist(patterns, i, last'.frame) < hamming_threshold
                  /\ patterns'[i].hit_count = patterns[i].hit_count + 1
                  /\ patterns'[i].last_used = IsoFormat(now)
                  /\ \A j \in 1..Len(patterns) \ {i} :
                        patterns'[j].hit_count = patterns[j].hit_count
      ]_vars
  /\ [](SumHits(patterns, Len(patterns)) = hitCalls)

\* C8 happens: an entry has been hit twice, at a later time than its insertion.
C8_Witness ==
  /\ last.op = "find_match"
  /\ last.result # None
  /\ hitCalls = 2
  /\ \E i \in 1..Len(patterns) :
        /\ patterns[i].hit_count = 2
        /\ patterns[i].last_used = IsoFormat(now - 1)
  /\ \E j \in 1..Len(patterns) : patterns[j].hit_count = 0

\* C9: find_match never adds or removes entries and never changes an
\* outcome or a confidence; on a hit only hit_count and last_used of the one
\* returned entry change, on a miss the store is unchanged.
C9_FindMatchFrame ==
  [][last'.op = "find_match" =>
       /\ Keys(patterns') = Keys(patterns)
       /\ \A i \in 1..Len(patterns) :
             /\ patterns'[i].hash = patterns[i].hash
             /\ patterns'[i].outcome = patterns[i].outcome
             /\ patterns'[i].confidence = patterns[i].confidence
       /\ last'.result = None => patterns' = patterns
       /\ last'.result # None =>
            /\ Cardinality(Changed(patterns, patterns')) <= 1
            /\ \A i \in Changed(patterns, patterns') :
                  /\ last'.result = <<patterns[i].outcome, patterns[i].confidence>>
                  /\ i \in Nearest(patterns, last'.frame, hamming_threshold)
    ]_vars

\* C9 happens: a hit with a second entry in the store that stays as it was.
C9_Witness ==
  /\ last.op = "find_match"
  /\ last.result # None
  /\ Len(patterns) = 2
  /\ \E i, j \in 1..2 :
        /\ patterns[i].hit_count = 1
        /\ patterns[j].hit_count = 0
        /\ Dist(patterns, j, last.frame) < hamming_threshold

HasFingerprint(pats, f) ==
  \E i \in 1..Len(pats) : Fingerprint(pats, i) = ComputeHash(f)

\* C10: add_pattern on a fingerprint in the store overwrites that entry's
\* outcome and confidence only (entry count, its hit_count and last_used and
\* all other entries unchanged); on a fingerprint not in the store it
\* appends exactly one entry, with hit_count = 0.
C10_AddPattern ==
  [][last'.op = "add_pattern" =>
       LET f == last'.frame
       IN IF HasFingerprint(patterns, f)
          THEN /\ Len(patterns') = Len(patterns)
               /\ \A i \in 1..Len(patterns) :
                     IF Fingerprint(patterns, i) = ComputeHash(f)
                     THEN patterns'[i] =
                            [patterns[i] EXCEPT !.outcome = last'.outcome,
                                                !.confidence = last'.confidence]
                     ELSE patterns'[i] = patterns[i]
          ELSE /\ Len(patterns') = Len(patterns) + 1
               /\ SubSeq(patterns', 1, Len(patterns)) = patterns
               /\ LET e == patterns'[Len(patterns')]
                  IN /\ Fingerprint(patterns', Len(patterns')) = ComputeHash(f)
                     /\ e.outcome = last'.outcome
                     /\ e.confidence = last'.confidence
                     /\ e.hit_count = 0
    ]_vars

\* C10 happens: the same frame and outcome added twice with a hit in
\* between leaves one entry, its hit_count still 1.
C10_Witness ==
  /\ last.op = "add_pattern"
  /\ Len(recentAdds) = 2
  /\ recentAdds[1] = recentAdds[2]
  /\ Len(patterns) = 1
  /\ patterns[1].hit_count = 1
  /\ Fingerprint(patterns, 1) = ComputeHash(last.frame)

\* ------------------------------------------------------ construction claims

\* a step that is one call of the named constructor
StartupStep(name) == ops' = ops + 1 /\ last'.op = name

\* a backing file that exists and that json.load rejects
Unparseable(file) == file # None /\ Len(file) # 1

\* C21: constructing PatternCacheService or LearningService over an existing
\* backing file that cannot be parsed raises CacheError / LearningError and
\* yields no instance; constructing over missing backing files succeeds with
\* empty state.
C21_ConstructionFailsOnCorruptFile ==
  [][ /\ StartupStep("PatternCacheService") =>
           /\ Unparseable(cache_file) =>
                /\ last'.error = "CacheError"
                /\ last'.instance = None
                /\ patterns' = patterns
           /\ cache_file = None =>
                /\ last'.error = "none"
                /\ last'.instance # None
                /\ last'.instance[1].patterns = <<>>
                /\ patterns' = <<>>
      /\ StartupStep("LearningService") =>
           /\ (Unparseable(corrections_file) \/ Unparseable(examples_file)) =>
                /\ last'.error = "LearningError"
                /\ last'.instance = None
                /\ corrections' = corrections
                /\ few_shot_examples' = few_shot_examples
           /\ (corrections_file = None /\ examples_file = None) =>
                /\ last'.error = "none"
                /\ last'.instance # None
                /\ last'.instance[1].corrections = <<>>
                /\ last'.instance[1].few_shot_examples = <<>>
    ]_vars

\* C21 happens: a learning service was constructed from readable files, and
\* then the construction of the pattern cache over a damaged cache file
\* raised CacheError.
C21_Witness ==
  /\ last.op = "PatternCacheService"
  /\ last.error = "CacheError"
  /\ Unparseable(cache_file)
  /\ Len(corrections) = 1
  /\ ops = 2

\* ---------------------------------------------------------- detector claims

\* a step that is one call of the named method of the motion detector
DetectorStep(name) == now' = now /\ last'.op = name

\* C22: check_and_fire_shot_event returns True only when a qualifying motion
\* frame has been analyzed since the last fired boundary (or reset) and
\* ball_stop_duration has passed since the last such frame; a call that
\* returns True invokes the registered callback once with the current frame,
\* a call that returns False does not invoke it, and the boundaries fired
\* and the callbacks made never outnumber the motion episodes.
C22_NoRefireWithinEpisode ==
  /\ [][DetectorStep("check_and_fire_shot_event") =>
          /\ last'.result <=>
               (lastQual # None /\ now - lastQual[1] >= BallStopTicks)
          /\ (last'.result /\ shot_callback) =>
               callbacks' = Append(callbacks, last'.frame)
          /\ ~(last'.result /\ shot_callback) => callbacks' = callbacks
          /\ last'.result =>
               ~IsBallStopped(motion_detected', last_motion_time', now')
      ]_vars
  /\ [](Len(callbacks) <= fires /\ fires <= episodes)

\* C22 happens: the first episode's boundary fired and invoked the callback,
\* a second episode has begun, and a call made before ball_stop_duration has
\* passed again returned False.
C22_Witness ==
  /\ last.op = "check_and_fire_shot_event"
  /\ ~last.result
  /\ fires = 1
  /\ Len(callbacks) = 1
  /\ episodes = 2
  /\ lastQual # None

\* C23: reset() clears the previous frame, the motion flag and the timer
\* from any state, so that is_ball_stopped() is false right after it; the
\* first analyze_frame after a reset (like the first one ever) returns False
\* and only records the baseline frame; and is_ball_stopped() stays false
\* for as long as no qualifying motion frame has been analyzed since.
C23_ResetRestoresFreshState ==
  /\ [][DetectorStep("reset") =>
          /\ previous_frame' = None
          /\ motion_detected' = FALSE
          /\ last_motion_time' = None
          /\ ~IsBallStopped(motion_detected', last_motion_time', now')
      ]_vars
  /\ [][( /\ DetectorStep("analyze_frame")
          /\ (last.op = "reset" \/ previous_frame = None) ) =>
          /\ last'.result = FALSE
          /\ previous_frame' = last'.frame
          /\ motion_detected' = motion_detected
          /\ last_motion_time' = last_motion_time
      ]_vars
  /\ [](lastQual = None =>
          ~IsBallStopped(motion_detected, last_motion_time, now))

\* C23 happens: reset() has just been called on a segmenter whose ball had
\* stopped and whose boundary had not been fired.
C23_Witness ==
  /\ last.op = "reset"
  /\ last.was_stopped
  /\ episodes = 1
  /\ fires = 0
  /\ previous_frame = None

\* ------------------------------------------------- get_stats / clear claims

\* a step that is one call of the named method of the cache
AdminStep(name) == ops' = ops + 1 /\ last'.op = name

\* C24: get_stats returns total_patterns = the number of stored entries,
\* total_hits = the sum of their hit counts and
\* hit_rate = total_hits / (total_patterns + total_hits), 0 for an empty
\* cache, and changes no entry.
C24_GetStats ==
  [][AdminStep("get_stats") =>
       LET r == last'.result
           P == Len(patterns)
           H == SumHits(patterns, Len(patterns))
       IN /\ r.total_patterns = P
          /\ r.total_hits = H
          /\ r.hit_rate[2] > 0
          /\ r.hit_rate[1] * (P + H) = H * r.hit_rate[2]
          /\ P = 0 => r.hit_rate[1] = 0
          /\ patterns' = patterns
          /\ cache_file' = cache_file
    ]_vars

\* C24 happens: get_stats has just reported two entries and one hit.
C24_Witness ==
  /\ last.op = "get_stats"
  /\ last.result.total_patterns = 2
  /\ last.result.total_hits = 1
  /\ last.result.hit_rate = <<1, 3>>

\* C25: clear() leaves the store empty and the cache file absent; from then
\* until the next add_pattern the store stays empty and every find_match
\* returns None; and a PatternCacheService constructed on the same path
\* right after it starts empty.
C25_Clear ==
  /\ [][AdminStep("clear") => (patterns' = <<>> /\ cache_file' = None)]_vars
  /\ [](cleared => patterns = <<>>)
  /\ [][(cleared /\ AdminStep("find_match")) => last'.result = None]_vars
  /\ [][(last.op = "clear" /\ AdminStep("load")) => patterns' = <<>>]_vars

\* C25 happens: clear() has just been called on a cache that held an entry
\* and had a cache file.
C25_Witness ==
  /\ last.op = "clear"
  /\ last.had_file
  /\ last.had_patterns > 0
  /\ patterns = <<>>
  /\ cache_file = None

\* ------------------------------------------------------- concurrency claims

\* the threads inside the body of a cache method
InBody == {t \in Threads : threads[t].pc \in {"locked", "fm_write"}}

\* C26: with threads calling find_match, add_pattern, update_confidence and
\* get_stats (and persist) concurrently, at most one thread is inside a
\* method body at a time and no hit_count update is lost: every entry's
\* hit_count equals the number of find_match calls that returned it.
C26_NoLostHitCount ==
  /\ Cardinality(InBody) <= 1
  /\ \A i \in 1..Len(patterns) :
        patterns[i].hit_count = hitsOn[patterns[i].key]

\* C26 happens: after one add_pattern, two find_match calls have returned
\* the entry and its hit_count is 2.
C26_Witness ==
  /\ Len(patterns) = 1
  /\ patterns[1].hit_count = 2
  /\ hitsOn[patterns[1].key] = 2
  /\ last.op = "find_match"
  /\ ops = 3

\* C27: the cache lock is not held by a thread whose classifier call is in
\* flight, nor while it waits to enter add_pattern after the reply.
C27_LockNotHeldDuringClassifier ==
  \A t \in Threads :
     threads[t].pc \in {"analyze_shot", "add_wait"} => cache_lock # <<t>>

\* C27 happens: while the monitor thread's classifier call is in flight the
\* tray thread is inside a cache method, holding the lock.
C27_Witness ==
  /\ threads["monitor"].pc = "analyze_shot"
  /\ threads["tray"].pc = "locked"
  /\ cache_lock = <<"tray">>

\* ------------------------------------------------------- session-end claim

\* C28: a persist that fails at session end raises nothing out of
\* Monitor.stop() and leaves the in-memory cache as it was.
C28_PersistFailureDegraded ==
  [][(tray = "persist" /\ tray' # "persist") =>
       (last'.raised = "none" /\ patterns' = patterns)]_vars

\* ----------------------------------------------------- interleaving claim

\* the outcomes that hold at least one example
Holding(examples) ==
  {examples[i].key : i \in {j \in 1..Len(examples) : Len(examples[j].examples) > 0}}

\* C29: with no outcome given and limit at least the number of outcomes
\* that hold examples, the result of get_few_shot_examples contains an
\* example of every such outcome.
C29_OutcomesInterleaved ==
  [][( /\ LearnStep("get_few_shot_examples")
       /\ last'.outcome = None
       /\ last'.limit >= Cardinality(Holding(few_shot_examples)) ) =>
       \A o \in Holding(few_shot_examples) :
          \E i \in 1..Len(last'.result) : last'.result[i].outcome = o
    ]_vars

\* ------------------------------------------------------------ capture claim

\* C30: get_latest_frame hands each captured frame to the consumer at most
\* once: no capture appears twice among the frames it has returned.
C30_FrameHandedOnce ==
  \A i, j \in 1..Len(delivered) : i # j => delivered[i] # delivered[j]

\* ------------------------------------------------------ store invariants

\* C31: after any sequence of add_pattern, find_match, update_confidence,
\* persist, load and clear the store holds at most one entry per
\* fingerprint and every entry is stored under the key equal to its hash
\* field; and a step that is neither clear nor load removes no entry.
C31_OneEntryPerFingerprint ==
  /\ [](/\ \A i \in 1..Len(patterns) : patterns[i].key = patterns[i].hash
        /\ \A i, j \in 1..Len(patterns) :
              i # j => Fingerprint(patterns, i) # Fingerprint(patterns, j))
  /\ [][(ops' = ops + 1 /\ last'.op \notin {"clear", "load"}) =>
          /\ Len(patterns') >= Len(patterns)
          /\ \A i \in 1..Len(patterns) : patterns'[i].key = patterns[i].key
      ]_vars

\* C31 happens: add_pattern has been called twice in a row for the same
\* frame and the store holds one entry.
C31_Witness ==
  /\ last.op = "add_pattern"
  /\ Len(recentAdds) = 2
  /\ recentAdds[1].frame = recentAdds[2].frame
  /\ recentAdds[1].outcome # recentAdds[2].outcome
  /\ Len(patterns) = 1

\* the entry of a non-empty set of entries that was inserted first
First(S) == CHOOSE i \in S : \A j \in S : i <= j

\* C32: when several entries are at the minimal distance below the
\* threshold, find_match returns the one inserted first and increments only
\* that entry's hit_count; and after persist() and a fresh load() the entry
\* chosen for every query is the same as before.
C32_TieFirstInserted ==
  /\ [][(ops' = ops + 1 /\ last'.op = "find_match") =>
          LET near == Nearest(patterns, last'.frame, hamming_threshold)
          IN near # {} =>
               \E m \in near :
                 /\ m = First(near)
                 /\ last'.result = <<patterns[m].outcome, patterns[m].confidence>>
                 /\ patterns'[m].hit_count = patterns[m].hit_count + 1
                 /\ Changed(patterns, patterns') = {m}
      ]_vars
  /\ [][(ops' = ops + 1 /\ last'.op = "load" /\ last.op = "persist") =>
          \A q \in Frames :
             LET before == Nearest(patterns, q, hamming_threshold)
                 after == Nearest(patterns', q, hamming_threshold)
             IN /\ (after = {}) <=> (before = {})
                /\ before # {} =>
                     patterns'[First(after)].key = patterns[First(before)].key
      ]_vars

\* C32 happens: a find_match whose query is equally near to two entries of
\* different outcomes has returned the first and counted a hit on it alone.
C32_Witness ==
  /\ last.op = "find_match"
  /\ Len(patterns) = 2
  /\ Dist(patterns, 1, last.frame) = Dist(patterns, 2, last.frame)
  /\ Dist(patterns, 1, last.frame) < hamming_threshold
  /\ patterns[1].outcome # patterns[2].outcome
  /\ last.result = <<patterns[1].outcome, patterns[1].confidence>>
  /\ patterns[1].hit_count = 1
  /\ patterns[2].hit_count = 0

\* in C32's second part a store with such a tie is persisted and reloaded
C32_WitnessReload ==
  /\ last.op = "load"
  /\ Len(patterns) = 2
  /\ \E q \in Frames :
        /\ Dist(patterns, 1, q) = Dist(patterns, 2, q)
        /\ Dist(patterns, 1, q) < hamming_threshold

\* C33: analyze_frame on a non-qualifying frame (motion_ratio <= threshold,
\* or motion not primarily vertical) returns False and leaves
\* motion_detected and last_motion_time as they were, whether or not motion
\* had been detected before; only previous_frame is replaced.
C33_NonQualifyingFrameNoEffect ==
  [][(DetectorStep("analyze_frame") /\ ~Qualifying(last'.sample)) =>
       /\ last'.result = FALSE
       /\ motion_detected' = motion_detected
       /\ last_motion_time' = last_motion_time
       /\ previous_frame' = last'.frame
       /\ last_shot_frame' = last_shot_frame
    ]_vars

\* C33 happens: while motion is being tracked, a later frame with much
\* motion that is not primarily vertical was analyzed and the timer still
\* shows the earlier time.
C33_Witness ==
  /\ last.op = "analyze_frame"
  /\ last.sample.motion_ratio > MotionThreshold
  /\ ~last.sample.is_vertical
  /\ ~last.result
  /\ motion_detected
  /\ last_motion_time # None
  /\ last_motion_time[1] < now

\* C39: starting from an empty cache and with the threshold unchanged, after
\* any sequence of processed shots every stored entry has a confidence of at
\* least min_confidence_to_cache and at most 1, and every shot answered from
\* the cache reports a confidence of at least min_confidence_to_cache.
C39_CachedConfidenceAtLeastMin ==
  /\ \A i \in 1..Len(patterns) :
       /\ patterns[i].confidence >= MinConfidenceToCache
       /\ patterns[i].confidence <= 100
  /\ \A i \in 1..Len(shot_events) :
       shot_events[i].was_cached =>
         shot_events[i].confidence >= MinConfidenceToCache

\* C39 happens: a classifier result clamped to 1 was stored by one shot and
\* a later shot was answered from the cache with that confidence.
C39_Witness ==
  /\ Len(shot_events) = 2
  /\ shot_events[1].confidence = 100
  /\ ~shot_events[1].was_cached
  /\ shot_events[2].was_cached
  /\ shot_events[2].confidence = 100
  /\ Len(patterns) = 1
  /\ patterns[1].confidence = 100

\* ----------------------------------------------------------- SingleInstance

\* Several processes start the application. Each constructs one
\* SingleInstance on the same lock_path; a file is named by the number of its
\* creation, and a lock belongs to the process whose handle took it. On
\* Unix a file can be unlinked while it is open, and the processes that have
\* it open keep it; on Windows os.remove fails while any process has it open.

InitInstance ==
  /\ InitState
  /\ platform \in {"win32", "unix"}
  /\ cache_file = None
  /\ corrections_file = None
  /\ NoExamplesFile
  /\ hamming_threshold = HashSize
  /\ max_examples_per_outcome = DefaultMaxExamples

instanceRest == <<now, cacheVars, cacheHist, detectorVars, monitorVars,
                  monitorHist, cache_file, stopVars, learnVars, fireVars,
                  cleared, threadVars, captureVars, voiceVars, trayVars,
                  saved_sessions, platform>>

\* the processes that have the file open
OpenHandles(inode) == {p \in Procs : instances[p].handle = inode}

\* open(lock_path, 'w') or os.open(lock_path, O_CREAT | O_EXCL | O_RDWR) with
\* no file at the path: the file is created
CreateLockFile(p, pc) ==
  /\ lock_path = 0
  /\ lock_path' = inodes_made + 1
  /\ inodes_made' = inodes_made + 1
  /\ instances' = [instances EXCEPT ![p] = [pc |-> pc, handle |-> inodes_made + 1]]
  /\ UNCHANGED flocks

\* a step of process p's constructor or release that ends at pc with handle
Moves(p, pc, handle) ==
  instances' = [instances EXCEPT ![p] = [pc |-> pc, handle |-> handle]]

\* Unix: self.lock_file = open(str(self.lock_path), 'w')
UnixOpen(p) ==
  /\ platform = "unix"
  /\ instances[p].pc = "absent"
  /\ \/ CreateLockFile(p, "opened")
     \/ /\ lock_path # 0
        /\ Moves(p, "opened", lock_path)
        /\ UNCHANGED <<lock_path, inodes_made, flocks>>
  /\ last' = [op |-> "open", proc |-> p]
  /\ UNCHANGED instanceRest

\* Unix: fcntl.flock(LOCK_EX | LOCK_NB); BlockingIOError becomes
\* SingleInstanceError, and self.lock_file stays open
UnixFlock(p) ==
  /\ platform = "unix"
  /\ instances[p].pc = "opened"
  /\ LET h == instances[p].handle
     IN IF flocks[h] = 0
        THEN /\ flocks' = [flocks EXCEPT ![h] = p]
             /\ Moves(p, "running", h)
             /\ last' = [op |-> "acquire", proc |-> p, raised |-> "none"]
        ELSE /\ Moves(p, "failed", h)
             /\ last' = [op |-> "acquire", proc |-> p,
                         raised |-> "SingleInstanceError"]
             /\ UNCHANGED flocks
  /\ UNCHANGED <<lock_path, inodes_made, instanceRest>>

\* Windows: os.open(O_CREAT | O_EXCL | O_RDWR); FileExistsError leads to the
\* test for a stale file
WinOpenExcl(p) ==
  /\ platform = "win32"
  /\ instances[p].pc = "absent"
  /\ \/ CreateLockFile(p, "opened")
     \/ /\ lock_path # 0
        /\ Moves(p, "exists", 0)
        /\ UNCHANGED <<lock_path, inodes_made, flocks>>
  /\ last' = [op |-> "open", proc |-> p]
  /\ UNCHANGED instanceRest

\* Windows: test_fd = os.open(O_RDWR) and msvcrt.locking(test_fd, LK_NBLCK, 1).
\* A locked file means another instance is running; a missing file raises
\* into the same SingleInstanceError.
WinTestLock(p) ==
  /\ platform = "win32"
  /\ instances[p].pc = "exists"
  /\ IF lock_path # 0 /\ flocks[lock_path] = 0
     THEN /\ flocks' = [flocks EXCEPT ![lock_path] = p]
          /\ Moves(p, "testing", lock_path)
          /\ last' = [op |-> "test", proc |-> p]
     ELSE /\ Moves(p, "failed", 0)
          /\ last' = [op |-> "acquire", proc |-> p,
                      raised |-> "SingleInstanceError"]
          /\ UNCHANGED flocks
  /\ UNCHANGED <<lock_path, inodes_made, instanceRest>>

\* Windows: os.close(test_fd), which gives the test lock up
WinTestClose(p) ==
  /\ platform = "win32"
  /\ instances[p].pc = "testing"
  /\ flocks' = [flocks EXCEPT ![instances[p].handle] = 0]
  /\ Moves(p, "stale", 0)
  /\ last' = [op |-> "test_close", proc |-> p]
  /\ UNCHANGED <<lock_path, inodes_made, instanceRest>>

\* Windows: os.remove of the stale file; it raises when the file is gone
\* or open in any process
WinRemoveStale(p) ==
  /\ platform = "win32"
  /\ instances[p].pc = "stale"
  /\ IF lock_path # 0 /\ OpenHandles(lock_path) = {}
     THEN /\ lock_path' = 0
          /\ Moves(p, "reopen", 0)
          /\ last' = [op |-> "remove_stale", proc |-> p]
     ELSE /\ Moves(p, "failed", 0)
          /\ last' = [op |-> "acquire", proc |-> p,
                      raised |-> "SingleInstanceError"]
          /\ UNCHANGED lock_path
  /\ UNCHANGED <<inodes_made, flocks, instanceRest>>

\* Windows: "Try again": os.open(O_CREAT | O_EXCL | O_RDWR)
WinReopen(p) ==
  /\ platform = "win32"
  /\ instances[p].pc = "reopen"
  /\ \/ /\ CreateLockFile(p, "opened")
        /\ last' = [op |-> "open", proc |-> p]
     \/ /\ lock_path # 0
        /\ Moves(p, "failed", 0)
        /\ last' = [op |-> "acquire", proc |-> p,
                    raised |-> "SingleInstanceError"]
        /\ UNCHANGED <<lock_path, inodes_made, flocks>>
  /\ UNCHANGED instanceRest

\* Windows: msvcrt.locking(self.fd, LK_NBLCK, 1). An OSError here is one of
\* the "other errors": a warning is printed and the constructor returns.
WinLock(p) ==
  /\ platform = "win32"
  /\ instances[p].pc = "opened"
  /\ LET h == instances[p].handle
     IN /\ flocks' = IF flocks[h] = 0 THEN [flocks EXCEPT ![h] = p] ELSE flocks
        /\ Moves(p, "running", h)
        /\ last' = [op |-> "acquire", proc |-> p,
                    raised |-> IF flocks[h] = 0 THEN "none" ELSE "warning"]
  /\ UNCHANGED <<lock_path, inodes_made, instanceRest>>

\* release(), called by exit_app on the holder and by __del__ on the object
\* of a failed attempt: unlock and close the handle the object has
ReleaseClose(p) ==
  /\ instances[p].pc \in {"running", "failed"}
  /\ LET h == instances[p].handle
     IN flocks' = IF h # 0 /\ flocks[h] = p THEN [flocks EXCEPT ![h] = 0]
                  ELSE flocks
  /\ Moves(p, "closed", 0)
  /\ last' = [op |-> "release", proc |-> p, was |-> instances[p].pc]
  /\ UNCHANGED <<lock_path, inodes_made, instanceRest>>

\* os.remove(lock_path) in release: "if self.lock_path.exists()", errors
\* swallowed
RemoveLockFile ==
  IF lock_path # 0 /\ (platform = "unix" \/ OpenHandles(lock_path) = {})
  THEN 0
  ELSE lock_path

\* release(): "Remove lock file"
ReleaseRemove(p) ==
  /\ instances[p].pc = "closed"
  /\ lock_path' = RemoveLockFile
  /\ Moves(p, "released", 0)
  /\ last' = [op |-> "remove", proc |-> p]
  /\ UNCHANGED <<inodes_made, flocks, instanceRest>>

\* __del__ on an object already released: release() again, with no handle
\* left
Del(p) ==
  /\ instances[p].pc = "released"
  /\ lock_path' = RemoveLockFile
  /\ Moves(p, "destroyed", 0)
  /\ last' = [op |-> "del", proc |-> p]
  /\ UNCHANGED <<inodes_made, flocks, instanceRest>>

NextInstance ==
  \/ \E p \in Procs : UnixOpen(p)
  \/ \E p \in Procs : UnixFlock(p)
  \/ \E p \in Procs : WinOpenExcl(p)
  \/ \E p \in Procs : WinTestLock(p)
  \/ \E p \in Procs : WinTestClose(p)
  \/ \E p \in Procs : WinRemoveStale(p)
  \/ \E p \in Procs : WinReopen(p)
  \/ \E p \in Procs : WinLock(p)
  \/ \E p \in Procs : ReleaseClose(p)
  \/ \E p \in Procs : ReleaseRemove(p)
  \/ \E p \in Procs : Del(p)

SpecInstance == InitInstance /\ [][NextInstance]_vars

\* the processes whose constructor has returned and whose release has not
\* begun
Running == {p \in Procs : instances[p].pc = "running"}

\* C34: for any interleaving of acquisition attempts, releases or
\* destructions of the objects of failed attempts, and releases by the
\* holder, at most one process at a time has acquired the instance lock and
\* not yet released it.
C34_MutualExclusion ==
  Cardinality(Running) <= 1

\* On Windows, where a file that is open cannot be removed, at most one
\* process runs at a time.
ExclusionOnWindows ==
  platform = "win32" => Cardinality(Running) <= 1

\* ------------------------------------------------------------- VoiceService

\* The monitor thread calls speak(blocking=False) and stop(); every thread
\* speak starts runs _speak_sync, which raises is_speaking when it begins and
\* lowers it when the playback has ended or failed.

voiceRest == <<now, cacheVars, cacheHist, detectorVars, monitorVars,
               monitorHist, cache_file, stopVars, learnVars, fireVars,
               cleared, threadVars, captureVars, instanceVars, trayVars,
               saved_sessions>>

\* the speeches not started yet
Unstarted == {k \in Speeches : speeches[k] = "none"}

\* speak: "if self.is_speaking: return False"
SpeakRefuses(speaking) == speaking

\* speak(text, blocking=False)
Speak ==
  /\ IF SpeakRefuses(is_speaking)
     THEN /\ last' = [op |-> "speak", result |-> FALSE]
          /\ UNCHANGED <<current_thread, speeches>>
     ELSE /\ Unstarted # {}
          /\ LET k == CHOOSE k \in Unstarted : \A j \in Unstarted : k <= j
             IN /\ speeches' = [speeches EXCEPT ![k] = "started"]
                /\ current_thread' = k
          /\ last' = [op |-> "speak", result |-> TRUE]
  /\ UNCHANGED <<is_speaking, should_stop, voiceRest>>

\* _speak_sync: self.is_speaking = True
SpeakSyncBegin(k) ==
  /\ speeches[k] = "started"
  /\ speeches' = [speeches EXCEPT ![k] = "playing"]
  /\ is_speaking' = TRUE
  /\ last' = [op |-> "speak_sync_begin", speech |-> k]
  /\ UNCHANGED <<should_stop, current_thread, voiceRest>>

\* _speak_sync: the playback ends, or convert or play raises; either way
\* self.is_speaking = False
SpeakSyncEnd(k, raised) ==
  /\ speeches[k] = "playing"
  /\ speeches' = [speeches EXCEPT ![k] = "done"]
  /\ is_speaking' = FALSE
  /\ last' = [op |-> "speak_sync_end", speech |-> k, raised |-> raised]
  /\ UNCHANGED <<should_stop, current_thread, voiceRest>>

\* stop(): the flags are set and current_thread is joined for at most two
\* seconds; the playback itself cannot be stopped
VoiceStop ==
  /\ should_stop' = TRUE
  /\ is_speaking' = FALSE
  /\ last' = [op |-> "voice_stop",
              joined |-> current_thread # 0 /\ speeches[current_thread] = "done"]
  /\ UNCHANGED <<current_thread, speeches, voiceRest>>

NextVoice ==
  \/ Speak
  \/ \E k \in Speeches : SpeakSyncBegin(k)
  \/ \E k \in Speeches, raised \in BOOLEAN : SpeakSyncEnd(k, raised)
  \/ VoiceStop

SpecVoice == Init /\ [][NextVoice]_vars

\* the _speak_sync executions between raising and lowering is_speaking
Playing == {k \in Speeches : speeches[k] = "playing"}

\* C35: for any interleaving of speak(blocking=False) calls, stop() and the
\* _speak_sync threads, at most one _speak_sync execution is active at any
\* time.
C35_SpeechNeverOverlaps ==
  Cardinality(Playing) <= 1

\* ---------------------------------------------------------- TrayApplication

\* The tray thread runs the menu's calls one at a time; every thread that
\* start_monitoring spawns runs _run_monitor on its own. A Monitor's
\* is_running is False from its construction until start_non_blocking has
\* found the window, started the capture and created the session.

trayRest == <<now, cacheVars, cacheHist, detectorVars, monitorVars,
              monitorHist, cache_file, stopVars, learnVars, fireVars,
              cleared, threadVars, captureVars, instanceVars, voiceVars,
              saved_sessions>>

\* "self.monitor and self.monitor.is_running"
MonitorRunning(mon, running) == mon # 0 /\ running[mon]

\* the Monitors not constructed yet
Unmade == {k \in Monitors : run_threads[k].pc = "none"}

\* start_monitoring, called from the menu or by toggle_monitoring: unless a
\* Monitor is running, a new Monitor and a new thread replace the old ones
TrayStartMonitoring(via) ==
  /\ tray_call = "idle"
  /\ IF MonitorRunning(monitor, monitors)
     THEN /\ via = "start_monitoring"
          /\ last' = [op |-> via, created |-> FALSE]
          /\ UNCHANGED <<monitor, monitors, run_threads>>
     ELSE /\ Unmade # {}
          /\ LET k == CHOOSE k \in Unmade : \A j \in Unmade : k <= j
             IN /\ monitor' = k
                /\ monitors' = [monitors EXCEPT ![k] = FALSE]
                /\ run_threads' = [run_threads EXCEPT
                                     ![k] = [pc |-> "spawned", monitor |-> 0]]
          /\ last' = [op |-> via, created |-> TRUE]
  /\ UNCHANGED <<tray_call, trayRest>>

\* _run_monitor begins: self.monitor is read and start_non_blocking called
RunMonitor(k) ==
  /\ run_threads[k].pc = "spawned"
  /\ run_threads' = [run_threads EXCEPT
                       ![k] = [pc |-> "starting", monitor |-> monitor]]
  /\ last' = [op |-> "run_monitor", thread |-> k]
  /\ UNCHANGED <<monitor, monitors, tray_call, trayRest>>

\* start_non_blocking: the set-up succeeds, is_running becomes True and
\* _monitoring_loop is entered; or the set-up raises, stop() finds
\* is_running False and the thread ends
StartNonBlocking(k, ok) ==
  /\ run_threads[k].pc = "starting"
  /\ LET m == run_threads[k].monitor
     IN IF ok
        THEN /\ monitors' = [monitors EXCEPT ![m] = TRUE]
             /\ run_threads' = [run_threads EXCEPT ![k].pc = "loop"]
        ELSE /\ run_threads' = [run_threads EXCEPT ![k].pc = "exited"]
             /\ UNCHANGED monitors
  /\ last' = [op |-> "start_non_blocking", thread |-> k, ok |-> ok]
  /\ UNCHANGED <<monitor, tray_call, trayRest>>

\* `while self.is_running` holds and the ball has stopped: _process_shot
LoopShot(k) ==
  /\ run_threads[k].pc = "loop"
  /\ monitors[run_threads[k].monitor]
  /\ run_threads' = [run_threads EXCEPT ![k].pc = "shot"]
  /\ last' = [op |-> "process_shot", thread |-> k]
  /\ UNCHANGED <<monitor, monitors, tray_call, trayRest>>

\* _process_shot returns
ShotDone(k) ==
  /\ run_threads[k].pc = "shot"
  /\ run_threads' = [run_threads EXCEPT ![k].pc = "loop"]
  /\ last' = [op |-> "shot_done", thread |-> k]
  /\ UNCHANGED <<monitor, monitors, tray_call, trayRest>>

\* `while self.is_running` fails: the thread ends
LoopExit(k) ==
  /\ run_threads[k].pc = "loop"
  /\ ~monitors[run_threads[k].monitor]
  /\ run_threads' = [run_threads EXCEPT ![k].pc = "exited"]
  /\ last' = [op |-> "loop_exit", thread |-> k]
  /\ UNCHANGED <<monitor, monitors, tray_call, trayRest>>

\* stop_monitoring, called from the menu or by toggle_monitoring: nothing
\* unless a Monitor is running; else Monitor.stop() and the join begins
TrayStopMonitoring(via) ==
  /\ tray_call = "idle"
  /\ IF MonitorRunning(monitor, monitors)
     THEN /\ monitors' = [monitors EXCEPT ![monitor] = FALSE]
          /\ tray_call' = "join"
          /\ last' = [op |-> via, stopped |-> TRUE]
     ELSE /\ via = "stop_monitoring"
          /\ last' = [op |-> via, stopped |-> FALSE]
          /\ UNCHANGED <<monitors, tray_call>>
  /\ UNCHANGED <<monitor, run_threads, trayRest>>

\* stop_monitoring: the thread has ended, or join(10.0) and join(2.0) have
\* both timed out, with is_running forced to False between them
TrayStopReturns(timed_out) ==
  /\ tray_call = "join"
  /\ timed_out <=> run_threads[monitor].pc # "exited"
  /\ monitors' = [monitors EXCEPT ![monitor] = FALSE]
  /\ tray_call' = "idle"
  /\ last' = [op |-> "stop_returns", timed_out |-> timed_out]
  /\ UNCHANGED <<monitor, run_threads, trayRest>>

NextTray ==
  \/ \E via \in {"start_monitoring", "toggle_monitoring"} : TrayStartMonitoring(via)
  \/ \E via \in {"stop_monitoring", "toggle_monitoring"} : TrayStopMonitoring(via)
  \/ \E timed_out \in BOOLEAN : TrayStopReturns(timed_out)
  \/ \E k \in Monitors : RunMonitor(k)
  \/ \E k \in Monitors, ok \in BOOLEAN : StartNonBlocking(k, ok)
  \/ \E k \in Monitors : LoopShot(k)
  \/ \E k \in Monitors : ShotDone(k)
  \/ \E k \in Monitors : LoopExit(k)

SpecTray == Init /\ [][NextTray]_vars

\* the threads that are inside _monitoring_loop
Looping == {k \in Monitors : run_threads[k].pc \in {"loop", "shot"}}

\* C36: for any interleaving of start_monitoring, stop_monitoring and
\* toggle_monitoring with the progress of the monitor threads they spawn, at
\* most one _monitoring_loop is running at any time.
C36_OneMonitoringLoop ==
  Cardinality(Looping) <= 1

\* --------------------------------------------- _monitoring_loop, step by step

\* The monitor thread is at the `while self.is_running` test ("loop"), inside
\* the body of the loop ("iteration") or past the loop ("exited"), while
\* another thread calls Monitor.stop(). Any call of the body may raise; the
\* handler of the loop prints the error and sleeps.

loopRest == <<hamming_threshold, cacheHist, corrections, in_flight, learnVars,
              fireVars, cleared, threadVars, captureVars, instanceVars,
              voiceVars, trayVars>>

\* a loop that never looks at the flag
MutLoopIgnoresFlag(running) == TRUE

\* `while self.is_running:`
LoopContinues(running) == running

\* a handler that lets the error end the loop
MutErrorEndsLoop == "exited"

\* `except Exception as e: print(...); time.sleep(1.0)`: the loop goes on
AfterLoopError == "loop"

\* a stop that never returns early
MutStopNeverEarly(running) == FALSE

\* stop: "if not self.is_running: return"
StopReturnsEarly(running) == ~running

\* whether the iteration before this one ended in the handler of the loop
PrevRaised == last.op = "iteration" /\ last.raised # "none"

\* the `while` test
LoopCheck ==
  /\ monitor_thread = "loop"
  /\ monitor_thread' = IF LoopContinues(is_running) THEN "iteration" ELSE "exited"
  /\ UNCHANGED <<now, last, cacheVars, detectorVars, shot_events, monitorHist,
                 cache_file, is_running, tray, saved_sessions, loopRest>>

\* get_latest_frame returns None: sleep and continue
IterNoFrame ==
  /\ monitor_thread = "iteration"
  /\ monitor_thread' = "loop"
  /\ last' = [op |-> "iteration", fired |-> FALSE,
              raised |-> "none", error |-> "none", late |-> ~is_running,
              after_error |-> PrevRaised]
  /\ UNCHANGED <<now, cacheVars, detectorVars, shot_events, monitorHist,
                 cache_file, is_running, tray, saved_sessions, loopRest>>

\* analyze_frame, and is_ball_stopped returns False
IterFrame(frame, sample) ==
  /\ monitor_thread = "iteration"
  /\ ~Stopped(sample)
  /\ LET m == MotionAfter(sample)
     IN /\ previous_frame' = frame
        /\ motion_detected' = m.motion_detected
        /\ last_motion_time' = m.last_motion_time
  /\ Episode(sample, FALSE)
  /\ monitor_thread' = "loop"
  /\ last' = [op |-> "iteration", fired |-> FALSE,
              raised |-> "none", error |-> "none", late |-> ~is_running,
              after_error |-> PrevRaised]
  /\ UNCHANGED <<now, cacheVars, shot_events, cache_file, is_running, tray,
                 saved_sessions, loopRest>>

\* analyze_frame, is_ball_stopped returns True, _process_shot (which
\* swallows its own errors) and reset
IterShot(frame, sample, c) ==
  /\ monitor_thread = "iteration"
  /\ Stopped(sample)
  /\ fires < MaxShots
  /\ LET r == ProcessShot(patterns, shot_events, frame, c, hamming_threshold, now)
     IN /\ Consulted(c, r.calls)
        /\ patterns' = r.patterns
        /\ shot_events' = r.shot_events
        /\ last' = [op |-> "iteration", fired |-> TRUE,
                    raised |-> "none", error |-> r.error, late |-> ~is_running,
                    after_error |-> PrevRaised]
  /\ previous_frame' = None
  /\ last_motion_time' = None
  /\ motion_detected' = FALSE
  /\ Episode(sample, TRUE)
  /\ monitor_thread' = "loop"
  /\ UNCHANGED <<now, hamming_threshold, cache_file, is_running, tray,
                 saved_sessions, loopRest>>

\* An iteration that ends in the handler with nothing assigned:
\* get_latest_frame raises, or analyze_frame raises in its cv2 calls, which
\* come before its assignments
IterRaisesEarly(point) ==
  /\ monitor_thread = "iteration"
  /\ monitor_thread' = AfterLoopError
  /\ last' = [op |-> "iteration", fired |-> FALSE, raised |-> point,
              error |-> "none", late |-> ~is_running, after_error |-> PrevRaised]
  /\ UNCHANGED <<now, cacheVars, detectorVars, shot_events, monitorHist,
                 cache_file, is_running, tray, saved_sessions, loopRest>>

\* is_ball_stopped raises after analyze_frame has returned
IterRaisesStopped(frame, sample) ==
  /\ monitor_thread = "iteration"
  /\ monitor_thread' = AfterLoopError
  /\ LET m == MotionAfter(sample)
     IN /\ previous_frame' = frame
        /\ motion_detected' = m.motion_detected
        /\ last_motion_time' = m.last_motion_time
  /\ Episode(sample, FALSE)
  /\ last' = [op |-> "iteration", fired |-> FALSE, raised |-> "is_ball_stopped",
              error |-> "none", late |-> ~is_running, after_error |-> PrevRaised]
  /\ UNCHANGED <<now, cacheVars, shot_events, cache_file, is_running, tray,
                 saved_sessions, loopRest>>

\* reset raises after _process_shot has returned: the segmenter keeps the
\* state analyze_frame left
IterRaisesReset(frame, sample, c) ==
  /\ monitor_thread = "iteration"
  /\ Stopped(sample)
  /\ fires < MaxShots
  /\ monitor_thread' = AfterLoopError
  /\ LET m == MotionAfter(sample)
     IN /\ previous_frame' = frame
        /\ motion_detected' = m.motion_detected
        /\ last_motion_time' = m.last_motion_time
  /\ Episode(sample, TRUE)
  /\ LET r == ProcessShot(patterns, shot_events, frame, c, hamming_threshold, now)
     IN /\ Consulted(c, r.calls)
        /\ patterns' = r.patterns
        /\ shot_events' = r.shot_events
        /\ last' = [op |-> "iteration", fired |-> TRUE, raised |-> "reset",
                    error |-> r.error, late |-> ~is_running,
                    after_error |-> PrevRaised]
  /\ UNCHANGED <<now, hamming_threshold, cache_file, is_running, tray,
                 saved_sessions, loopRest>>

\* Monitor.stop() up to `self.is_running = False`; a call on a Monitor that
\* is not running returns at once
LoopStop ==
  /\ tray = "idle"
  /\ IF StopReturnsEarly(is_running)
     THEN /\ last' = [op |-> "stop", noop |-> TRUE, raised |-> "none"]
          /\ UNCHANGED <<is_running, tray>>
     ELSE /\ saved_sessions < MaxSaves
          /\ is_running' = FALSE
          /\ tray' = "persist"
          /\ last' = [op |-> "stop", noop |-> FALSE, raised |-> "none"]
  /\ UNCHANGED <<now, cacheVars, detectorVars, shot_events, monitorHist,
                 cache_file, monitor_thread, saved_sessions, loopRest>>

\* Monitor.stop(): save_session and pattern_cache.persist(), and the return
LoopStopSave ==
  /\ tray = "persist"
  /\ saved_sessions' = saved_sessions + 1
  /\ cache_file' = <<PersistData(patterns)>>
  /\ tray' = "idle"
  /\ last' = [op |-> "stop_save", raised |-> "none"]
  /\ UNCHANGED <<now, cacheVars, detectorVars, shot_events, monitorHist,
                 is_running, monitor_thread, loopRest>>

\* The screen shows one picture throughout; a shot is either answered by the
\* classifier with confidence or fails in the classifier, and no commentary
\* is made.
LoopFrame == CHOOSE f \in Frames : \A i \in 1..HashBits : f[i] = 0
LoopCollaborators ==
  {c \in Collaborators :
     /\ ~c.achievement
     /\ c.commentary = "skip"
     /\ c.classifier.ok => (c.classifier.outcome = "water"
                             /\ c.classifier.confidence = 90)}

\* the steps of the monitor thread
LoopThread ==
  \/ LoopCheck
  \/ IterNoFrame
  \/ \E s \in NextSamples : IterFrame(LoopFrame, s)
  \/ \E s \in NextSamples, c \in LoopCollaborators : IterShot(LoopFrame, s, c)
  \/ \E point \in {"get_latest_frame", "analyze_frame"} : IterRaisesEarly(point)
  \/ \E s \in NextSamples : IterRaisesStopped(LoopFrame, s)
  \/ \E s \in NextSamples, c \in LoopCollaborators : IterRaisesReset(LoopFrame, s, c)

NextLoop ==
  \/ Tick
  \/ LoopThread
  \/ LoopStop
  \/ LoopStopSave

\* every call the monitor thread makes returns, so the thread keeps taking
\* steps until it has left the loop
SpecLoop == Init /\ [][NextLoop]_vars /\ WF_vars(LoopThread)

\* a stop() call that found the Monitor not running
StopAgainStep ==
  /\ tray = "idle"
  /\ ~is_running
  /\ last'.op = "stop"
  /\ now' = now
  /\ monitor_thread' = monitor_thread

\* C37: once Monitor.stop() has set is_running to False, the flag stays
\* False and the loop enters no new iteration, so that it completes at most
\* the iteration in progress (with the _process_shot of that iteration, if
\* any) and starts no _process_shot after it; the thread eventually leaves
\* the loop, each of its calls returning; and a further stop() call returns
\* at once, neither saving the session nor persisting the cache again.
C37_StopTerminates ==
  /\ [][~is_running => ~is_running']_vars
  /\ [][(~is_running /\ monitor_thread = "loop") =>
          monitor_thread' \in {"loop", "exited"}]_vars
  /\ (~is_running) ~> (monitor_thread = "exited")
  /\ [][StopAgainStep =>
          /\ last'.noop
          /\ saved_sessions' = saved_sessions
          /\ cache_file' = cache_file
          /\ UNCHANGED <<cacheVars, shot_events, is_running, tray>>]_vars

\* C37 happens: stop() cleared the flag during an iteration, which went on
\* to process a shot that the cache then stored; the thread has left the
\* loop; and a second stop() has returned with the session saved once and
\* the cache file still without that shot.
C37_Witness ==
  /\ last.op = "stop"
  /\ last.noop
  /\ monitor_thread = "exited"
  /\ saved_sessions = 1
  /\ Len(patterns) = 1
  /\ cache_file = <<PersistData(<<>>)>>

\* an iteration of the loop ends
IterationStep == monitor_thread = "iteration" /\ monitor_thread' # "iteration"

\* C38: an exception raised in an iteration by the frame fetch,
\* analyze_frame, is_ball_stopped or reset, or inside _process_shot, never
\* ends _monitoring_loop and never changes is_running: the thread is back at
\* the test of the loop, and it leaves the loop only when is_running is
\* false.
C38_ErrorsKeepLoopAlive ==
  /\ [][(IterationStep /\ (last'.raised # "none" \/ last'.error # "none")) =>
          /\ monitor_thread' = "loop"
          /\ is_running' = is_running]_vars
  /\ [][monitor_thread' = "exited" => ~is_running]_vars

\* C38 happens: the iteration after one that ended in the handler of the
\* loop detected a shot and recorded it, with the Monitor still running.
C38_Witness ==
  /\ last.op = "iteration"
  /\ last.after_error
  /\ last.fired
  /\ last.raised = "none"
  /\ last.error = "none"
  /\ Len(shot_events) >= 1
  /\ is_running
  /\ monitor_thread = "loop"

====
